---------------------------- MODULE Spec2Model ----------------------------
(***************************************************************************)
(* A state-machine model of the log watcher daemon                         *)
(* (src/TradeCopierBot/log_watcher.py): the Correlation Store (state_data, *)
(* state_changed, the state file and its flush task), the Log Tailers      *)
(* (follow_log_file, parse_and_format_log_line, save_trade_to_db), the     *)
(* Alert Dispatcher (send_telegram_alert), the benign-error throttle and   *)
(* the Rotation Manager (the loop of main).                                *)
(*                                                                         *)
(* The daemon is a single asyncio process: a task runs without interleaving*)
(* from one await to the next, so every action below is the code between   *)
(* two awaits of one task.  A process kill can fall anywhere, also inside  *)
(* the synchronous save_watcher_state, whose file operations are therefore *)
(* separate steps that only a kill can interleave with.                    *)
(***************************************************************************)
EXTENDS Integers, Sequences, FiniteSets, TLC

VARIABLES
    \* ---- program state: registry, correlation store, tasks, ledger
    source_name_map,    \* file_path -> [name, id]   (load_source_names)
    state_data,         \* ticket -> display name    (the Correlation Store)
    state_changed,      \* dirty flag of the store
    watched_slaves,     \* slave_id -> [filepath, task]
    tasks,              \* task id -> the Tailer task's state
    ledger,             \* rows of the trades table, in insertion order
    \* ---- the file system
    disk,               \* "state" / "tmp" -> content of watcher_state.json(.tmp)
    logdir,             \* file name -> creation time, for the files that exist
    savePc,             \* position of batch_state_saver inside save_watcher_state
    \* ---- the Alert Dispatcher and the benign throttle
    now,                \* time.time(), in seconds
    CHANNEL_ID,         \* the configured channel, or None
    last_message_hash,
    last_message_time,
    g_benign_error_last_sent,
    calls,              \* caller -> state of its send_telegram_alert call
    \* ---- history (not read by any action's guard or effect on program state)
    openName,           \* ticket -> name stored by the last TRADE_OPEN whose entry is still there
    flushedOpen,        \* tickets whose open-time entry a completed flush has written
    pendingOpen,        \* tickets opened with no TRADE_CLOSE parsed since
    prevFile,           \* content of the state file when the last save began
    newDoc,             \* the map the last save was writing
    linesRead,          \* number of log lines consumed so far
    restarts,           \* number of process kills so far
    netlog,             \* caller -> what its current/last call did on the network
    lastDelivered,      \* text and start time of the last call delivered to the primary
    prevCall,           \* text, start time and progress of the most recent call
    window,             \* benign key -> start of its current window and what it let through
    \* ---- the Health Monitor
    source_statuses,    \* file_path -> [status, last_alert_time]
    alerted,            \* file_path -> kind and scan time of the last alert about it
    health,             \* position and locals of source_health_check
    srcfiles,           \* source file -> modification time, for the files that exist
    \* ---- the Event Parser
    logline,            \* the line the Tailer's readline returned last
    parsed,             \* what parse_and_format_log_line returned for it
    \* ---- the log files and the main loop
    logtext,            \* log file -> number of lines written to it so far
    offset,             \* Tailer -> lines its file had at open(), and its position
    seen,               \* the lines readline has returned, in the order of the reads,
                        \* each with the number of lines its file had at open()
    main,               \* the while loop of main: its position and wake-up time
    afterCycle          \* no Rotation Manager relevant step since the last cycle

corrVars == <<source_name_map, state_data, state_changed, ledger>>
taskVars == <<watched_slaves, tasks>>
diskVars == <<disk, savePc>>
dispVars == <<now, CHANNEL_ID, last_message_hash, last_message_time,
              g_benign_error_last_sent, calls, netlog, lastDelivered, prevCall, window>>
histVars == <<openName, flushedOpen, pendingOpen, prevFile, newDoc, linesRead, restarts>>
healthVars == <<source_statuses, health, srcfiles, alerted>>
parseVars == <<logline, parsed>>
tailVars == <<logtext, offset, seen>>
vars == <<corrVars, taskVars, diskVars, logdir, dispVars, histVars, afterCycle,
          healthVars, parseVars, tailVars, main>>

-----------------------------------------------------------------------------
(* Bounds of the model.                                                    *)
MaxLines == 3          \* log lines consumed in one behaviour
MaxRestarts == 1       \* process kills in one behaviour
MaxTasks == 3          \* Tailer tasks created between two restarts

(* Small input sets.                                                       *)
None == "None"
SlaveIds == {"copy_A", "copy_B"}
Tickets == {"178662307"}
SourceFiles == {"SourceA.log"}
Names == {"Alpha Feed", "Beta Feed"}
Profits == {-506}                         \* in cents
EmptyMap == [x \in {} |-> None]

(* The registries an ecosystem document can yield: none, the source of    *)
(* the log lines under one name or another, or another source only.        *)
OtherSource == "SourceB.log"

RegistryFiles == SourceFiles \cup {OtherSource}

Registries ==
    {EmptyMap} \cup
    { [f \in SourceFiles |-> [name |-> n, id |-> "src_1"]] : n \in Names } \cup
    { [f \in {OtherSource} |-> [name |-> "Gamma Feed", id |-> "src_2"]] }

-----------------------------------------------------------------------------
(* dict helpers                                                            *)
Get(d, k, default) == IF k \in DOMAIN d THEN d[k] ELSE default

Put(d, k, v) == [x \in DOMAIN d \cup {k} |-> IF x = k THEN v ELSE d[x]]

Del(d, k) == [x \in DOMAIN d \ {k} |-> d[x]]


-----------------------------------------------------------------------------
(* The file system: watcher_state.json and watcher_state.json.tmp.         *)
(* A file is absent, holds a complete JSON document, or holds a proper     *)
(* prefix of one (what a kill during json.dump leaves behind).             *)
AbsentFile == [kind |-> "absent", doc |-> EmptyMap]

PartialFile == [kind |-> "partial", doc |-> EmptyMap]

JsonFile(m) == [kind |-> "json", doc |-> m]

WATCHER_STATE_PATH == "state"

TmpPath_InPlace == WATCHER_STATE_PATH

(* save_watcher_state: tmp_path = WATCHER_STATE_PATH + '.tmp'              *)
TmpPath == "tmp"

(* os.replace(src, dst): dst takes src's content and src is gone.          *)
OsReplace(d, src, dst) ==
    IF src = dst THEN d
    ELSE [d EXCEPT ![dst] = d[src], ![src] = AbsentFile]

(* A file somebody else wrote may hold any JSON document: one that is not *)
(* an object (an array, a number, a string, null), or an object some of    *)
(* whose values are not strings; such a value is written as its JSON type  *)
(* between angle brackets.                                                 *)
NonStrings == {"<number>", "<null>", "<array>", "<object>"}

ValueFile == [kind |-> "value", doc |-> EmptyMap]

LoadNothing(f) == EmptyMap

IsFlatStringMap_AnyJson(f) == TRUE

(* isinstance(data, dict) and all(isinstance(k, str) and isinstance(v, str)*)
(* for k, v in data.items()); the keys of a JSON object are strings.       *)
IsFlatStringMap(f) ==
    /\ f.kind = "json"
    /\ \A k \in DOMAIN f.doc : f.doc[k] \notin NonStrings

(* load_watcher_state: {} when the file is absent, when json.load fails,   *)
(* or when the document is not a flat map of strings; the document         *)
(* otherwise.                                                              *)
LoadWatcherState(f) ==
    IF f.kind = "absent" THEN EmptyMap
    ELSE IF f.kind = "partial" THEN EmptyMap
    ELSE IF ~ IsFlatStringMap(f) THEN EmptyMap
    ELSE f.doc

-----------------------------------------------------------------------------
(* Log lines, as the parser classifies them.                               *)
NoLine == [kind |-> "none", ticket |-> None, source_file |-> None, profit |-> 0]

OpenLines ==
    { [kind |-> "OPEN", ticket |-> t, source_file |-> f, profit |-> 0] :
        t \in Tickets, f \in SourceFiles }

CloseLines ==
    { [kind |-> "CLOSE", ticket |-> t, source_file |-> f, profit |-> p] :
        t \in Tickets, f \in SourceFiles, p \in Profits }

(* A line that yields a message and nothing else (drawdown, limit, error), *)
(* and a line that yields (None, None) (empty, or a throttled benign one). *)
InfoLine == [kind |-> "INFO", ticket |-> None, source_file |-> None, profit |-> 0]

SkipLine == [kind |-> "SKIP", ticket |-> None, source_file |-> None, profit |-> 0]

DisplayName_Raw(f) == f

(* source_info['name'] if source_info else source_file                     *)
DisplayName(f) ==
    IF f \in DOMAIN source_name_map THEN source_name_map[f].name ELSE f

(* source_info['id'] if source_info else None                              *)
SourceId(f) ==
    IF f \in DOMAIN source_name_map THEN source_name_map[f].id ELSE None

(* if state_data.get(k) != v: state_data[k] = v; state_changed = True      *)
Upsert(k, v) ==
    /\ state_data' = Put(state_data, k, v)
    /\ state_changed' = (state_changed \/ Get(state_data, k, None) # v)
CloseName_Unknown(line) == Get(state_data, line.ticket, "unknown source")

(* close branch: source_display_name = state_data.get(ticket, source_file) *)
CloseName(line) == Get(state_data, line.ticket, line.source_file)

-----------------------------------------------------------------------------
(* The Event Parser on raw lines.  A raw line is its marker and the body   *)
(* after it, cut at the commas into fields.  A field is a sequence of      *)
(* chunks of text: a run of digits, a sign, a fraction, a blank, a         *)
(* parenthesis, a comma (inside a regex group that spans fields), or a run *)
(* of other characters.                                                    *)
DigitRuns == {"0", "3", "5", "5001", "178662307"}

Fractions == {".06", ".10"}

Signs == {"-"}

Blanks == {" "}

Brackets == {"(", ")"}

Comma == ","

RECURSIVE Text(_)
Text(f) == IF f = <<>> THEN "" ELSE Head(f) \o Text(Tail(f))

RECURSIVE JoinChunks(_)
JoinChunks(fs) ==
    IF fs = <<>> THEN <<>>
    ELSE IF Len(fs) = 1 THEN fs[1]
    ELSE fs[1] \o <<Comma>> \o JoinChunks(Tail(fs))

(* str.split(','): the pieces between the commas.                          *)
RECURSIVE Split(_)
Split(c) ==
    IF \A i \in 1..Len(c) : c[i] # Comma THEN <<c>>
    ELSE LET i == CHOOSE j \in 1..Len(c) :
                      c[j] = Comma /\ \A h \in 1..(j - 1) : c[h] # Comma
         IN  <<SubSeq(c, 1, i - 1)>> \o Split(SubSeq(c, i + 1, Len(c)))

RECURSIVE LStrip(_, _)
LStrip(f, chars) ==
    IF f # <<>> /\ Head(f) \in chars THEN LStrip(Tail(f), chars) ELSE f

RECURSIVE RStrip(_, _)
RStrip(f, chars) ==
    IF f # <<>> /\ f[Len(f)] \in chars
    THEN RStrip(SubSeq(f, 1, Len(f) - 1), chars) ELSE f

(* str.strip() and str.strip('()')                                         *)
Strip(f, chars) == RStrip(LStrip(f, chars), chars)

(* The value of a run of digits, and of a fraction in hundredths.          *)
DigitValue(d) ==
    CASE d = "0" -> 0 [] d = "3" -> 3 [] d = "5" -> 5 [] d = "5001" -> 5001
      [] d = "178662307" -> 178662307

FractionValue(x) == CASE x = ".06" -> 6 [] x = ".10" -> 10

(* float(text) succeeds on [sign] digits [fraction] and raises ValueError  *)
(* on every other text of the model (the empty text included).             *)
Unsigned(f) == IF f # <<>> /\ Head(f) \in Signs THEN Tail(f) ELSE f

IsFloat(f) ==
    LET u == Unsigned(f)
    IN  \/ Len(u) = 1 /\ u[1] \in DigitRuns
        \/ Len(u) = 2 /\ u[1] \in DigitRuns /\ u[2] \in Fractions

(* float(text), in hundredths                                              *)
FloatValue(f) ==
    LET u == Unsigned(f)
        v == 100 * DigitValue(u[1]) + (IF Len(u) = 2 THEN FractionValue(u[2]) ELSE 0)
    IN  IF u = f THEN v ELSE 0 - v

(* f"{x:,.2f}" of a non-negative amount in hundredths                      *)
Pad(n, width) ==
    IF width = 3 /\ n < 10 THEN "00" \o ToString(n)
    ELSE IF (width = 3 /\ n < 100) \/ (width = 2 /\ n < 10) THEN "0" \o ToString(n)
    ELSE ToString(n)

RECURSIVE Grouped(_)
Grouped(n) ==
    IF n < 1000 THEN ToString(n)
    ELSE Grouped(n \div 1000) \o "," \o Pad(n % 1000, 3)

Format2f(c) ==
    LET a == IF c < 0 THEN 0 - c ELSE c
    IN  (IF c < 0 THEN "-" ELSE "") \o Grouped(a \div 100) \o "." \o Pad(a % 100, 2)

(* f"{x:.2f}"                                                              *)
Plain2f(c) ==
    LET a == IF c < 0 THEN 0 - c ELSE c
    IN  (IF c < 0 THEN "-" ELSE "") \o ToString(a \div 100) \o "." \o Pad(a % 100, 2)

(* The markers of the lines the model feeds to the parser, and the text of *)
(* a line after line.strip().                                              *)
Markers ==
    {"TRADE_OPEN", "TRADE_CLOSE", "DD_ALERT", "DD_STOP", "DD_RESET",
     "LIMIT_MAX_LOT", "LIMIT_MAX_TRADES", "LIMIT_SOURCE_DD"}

Body(l) == Strip(JoinChunks(l.fields), Blanks)

LineText(l) ==
    IF Body(l) = <<>> THEN "[" \o l.marker \o "]"
    ELSE "[" \o l.marker \o "] " \o Text(Body(l))

(* re.search: the groups of the match, or NoMatch.                         *)
NoMatch == <<>>

(* [^,]+ between two commas: the whole field, which is not empty.          *)
NonEmpty(f) == f # <<>>

(* (\d+): the run of digits the field starts with.                         *)
LeadDigits(f) == IF f # <<>> /\ Head(f) \in DigitRuns THEN <<Head(f)>> ELSE <<>>

(* (\d+), : the field is a run of digits.                                  *)
AllDigits(f) == Len(f) = 1 /\ f[1] \in DigitRuns

Min(S) == CHOOSE x \in S : \A y \in S : x <= y

(* open_pattern: the lazy third group ends at the first field boundary     *)
(* after which three non-empty fields and a field starting with a digit    *)
(* follow.                                                                 *)
OpenEnds(fs) ==
    { k \in 3..(Len(fs) - 4) :
        /\ NonEmpty(fs[1]) /\ NonEmpty(fs[2])
        /\ (k > 3 \/ NonEmpty(fs[3]))
        /\ NonEmpty(fs[k + 1]) /\ NonEmpty(fs[k + 2]) /\ NonEmpty(fs[k + 3])
        /\ LeadDigits(fs[k + 4]) # <<>> }

open_pattern(l) ==
    LET fs == l.fields
        k == Min(OpenEnds(fs))
    IN  IF l.marker # "TRADE_OPEN" \/ OpenEnds(fs) = {} THEN NoMatch
        ELSE <<fs[1], fs[2], JoinChunks(SubSeq(fs, 3, k)), fs[k + 1], fs[k + 2],
               fs[k + 3], LeadDigits(fs[k + 4])>>

(* close_pattern: five non-empty fields, the digits the sixth starts with, *)
(* and in the seventh group everything after these digits.                 *)
close_pattern(l) ==
    LET fs == l.fields
    IN  IF /\ l.marker = "TRADE_CLOSE"
           /\ Len(fs) >= 6
           /\ \A i \in 1..5 : NonEmpty(fs[i])
           /\ LeadDigits(fs[6]) # <<>>
        THEN <<fs[1], fs[2], fs[3], fs[4], fs[5], LeadDigits(fs[6]),
               JoinChunks(<<Tail(fs[6])>> \o SubSeq(fs, 7, Len(fs)))>>
        ELSE NoMatch

(* alert_pattern, stop_pattern: the one group takes whatever follows the   *)
(* marker and its blanks, and there is a blank only before a body.         *)
alert_pattern(l) ==
    IF l.marker = "DD_ALERT" /\ Body(l) # <<>> THEN <<Body(l)>> ELSE NoMatch

stop_pattern(l) ==
    IF l.marker = "DD_STOP" /\ Body(l) # <<>> THEN <<Body(l)>> ELSE NoMatch

(* reset_pattern: a non-empty first field, and whatever follows it.        *)
reset_pattern(l) ==
    LET fs == l.fields
    IN  IF l.marker = "DD_RESET" /\ Len(fs) >= 1 /\ NonEmpty(fs[1])
        THEN <<fs[1], JoinChunks(Tail(fs))>>
        ELSE NoMatch

limit_max_lot_pattern(l) ==
    LET fs == l.fields
    IN  IF /\ l.marker = "LIMIT_MAX_LOT"
           /\ Len(fs) >= 4
           /\ \A i \in 1..4 : NonEmpty(fs[i])
        THEN <<fs[1], fs[2], fs[3], fs[4]>>
        ELSE NoMatch

limit_max_trades_pattern(l) ==
    LET fs == l.fields
    IN  IF /\ l.marker = "LIMIT_MAX_TRADES"
           /\ Len(fs) >= 4
           /\ NonEmpty(fs[1]) /\ NonEmpty(fs[2])
           /\ AllDigits(fs[3])
           /\ LeadDigits(fs[4]) # <<>>
        THEN <<fs[1], fs[2], fs[3], LeadDigits(fs[4])>>
        ELSE NoMatch

limit_source_dd_pattern(l) ==
    LET fs == l.fields
    IN  IF /\ l.marker = "LIMIT_SOURCE_DD"
           /\ Len(fs) >= 5
           /\ \A i \in 1..4 : NonEmpty(fs[i])
           /\ LeadDigits(fs[5]) # <<>>
        THEN <<fs[1], fs[2], fs[3], fs[4], LeadDigits(fs[5])>>
        ELSE NoMatch

(* What parse_and_format_log_line returns: the message and the trade data, *)
(* with the title of the message and the reason_str it was built from.     *)
NoTrade ==
    [copy_id |-> None, symbol |-> None, profit |-> 0, source_file |-> None,
     source_account_number |-> 0, source_ticket |-> None]

Result(title, message, trade, reason) ==
    [title |-> title, message |-> message, trade |-> trade, reason |-> reason]

NoLogLine == [marker |-> None, fields |-> <<>>]

NotParsed == Result("NotParsed", None, NoTrade, None)

(* return None, None                                                       *)
Nothing == Result("None", None, NoTrade, None)

(* except (ValueError, IndexError, TypeError): the message echoes the line *)
ParseError(l) ==
    Result("ParseError", "Parse Error in Log: " \o LineText(l), NoTrade, None)

(* parts = [p.strip() for p in ...]                                        *)
Stripped(parts) == [i \in 1..Len(parts) |-> Strip(parts[i], Blanks)]

OpenBranch(l) ==
    LET parts == Stripped(open_pattern(l))
        source_account_number == DigitValue(Text(parts[7]))
        source_display_name == DisplayName(Text(parts[6]))
    IN  IF Len(parts) # 7 THEN ParseError(l)
        ELSE Result("TradeOpened",
                 "New Position Opened / Source: " \o source_display_name
                 \o " (Acc: " \o ToString(source_account_number)
                 \o ") / Copy Account: " \o Text(parts[1])
                 \o " / Symbol: " \o Text(parts[2])
                 \o " / Volume: " \o Text(parts[3])
                 \o " / Open Price: " \o Text(parts[4])
                 \o " / Source Ticket: " \o Text(parts[5]),
                 NoTrade, None)

ReasonWithExtra_Dropped(reason_str, extra) == reason_str

(* The reason a TRADE_CLOSE line ends up with: the profit field when       *)
(* float() refuses it, then the stripped seventh group.                    *)
ReasonWithExtra(reason_str, extra) ==
    IF Strip(extra, Blanks) = <<>> THEN reason_str
    ELSE LET extra_reason == Text(Strip(Strip(extra, Blanks), Brackets))
         IN  IF reason_str # None /\ reason_str # ""
             THEN reason_str \o " | " \o extra_reason
             ELSE extra_reason

CloseBranch(l) ==
    LET groups == close_pattern(l)
        parts == Stripped(SubSeq(groups, 1, 6))
        source_account_number == DigitValue(Text(parts[6]))
        source_display_name == Get(state_data, Text(parts[3]), Text(parts[5]))
        numeric == IsFloat(parts[4])
        profit_float == IF numeric THEN FloatValue(parts[4]) ELSE 0
        profit_text ==
            IF ~numeric THEN "N/A"
            ELSE IF profit_float >= 0 THEN "+$" \o Format2f(profit_float)
            ELSE "-$" \o Format2f(0 - profit_float)
        reason_str ==
            ReasonWithExtra(IF numeric THEN None ELSE Text(parts[4]), groups[7])
        hasReason == reason_str # None /\ reason_str # ""
    IN  Result("TradeClosed",
            "Position Closed / Source: " \o source_display_name
            \o " (Acc: " \o ToString(source_account_number)
            \o ") / Copy Account: " \o Text(parts[1])
            \o " / Symbol: " \o Text(parts[2])
            \o " / Profit/Loss: " \o profit_text
            \o " / Source Ticket: " \o Text(parts[3])
            \o (IF hasReason THEN " / Reason: " \o reason_str ELSE ""),
            [copy_id |-> Text(parts[1]), symbol |-> Text(parts[2]),
             profit |-> profit_float, source_file |-> Text(parts[5]),
             source_account_number |-> source_account_number,
             source_ticket |-> Text(parts[3])],
            reason_str)

AlertBranch(l) ==
    LET parts == Stripped(Split(alert_pattern(l)[1]))
    IN  IF Len(parts) # 5 THEN ParseError(l)
        ELSE IF \E i \in 2..5 : ~IsFloat(parts[i]) THEN ParseError(l)
        ELSE Result("DrawdownAlert",
                 "Daily Drawdown Alert / Account: " \o Text(parts[1])
                 \o " / Current Loss: %" \o Plain2f(FloatValue(parts[2]))
                 \o " (-$" \o Format2f(FloatValue(parts[3]))
                 \o ") / Daily Start Equity: $" \o Format2f(FloatValue(parts[4]))
                 \o " / Daily Peak Equity: $" \o Format2f(FloatValue(parts[5])),
                 NoTrade, None)

StopBranch(l) ==
    LET parts == Stripped(Split(stop_pattern(l)[1]))
    IN  IF Len(parts) # 6 THEN ParseError(l)
        ELSE IF \E i \in 2..4 : ~IsFloat(parts[i]) THEN ParseError(l)
        ELSE Result("DrawdownStop",
                 "Copy Stopped Due to DD Limit / Account: " \o Text(parts[1])
                 \o " / Loss at Stop: %" \o Plain2f(FloatValue(parts[2]))
                 \o " (-$" \o Format2f(FloatValue(parts[4]))
                 \o ") / Stop Threshold: %" \o Format2f(FloatValue(parts[3])),
                 NoTrade, None)

ResetBranch(l) ==
    LET groups == reset_pattern(l)
        details == Text(Strip(groups[2], Blanks))
    IN  Result("DrawdownReset",
            "Daily DD Lock Released / Account: " \o Text(Strip(groups[1], Blanks))
            \o " / Status: " \o (IF details = "" THEN "Copying re-enabled" ELSE details),
            NoTrade, None)

MaxLotBranch(l) ==
    LET parts == Stripped(limit_max_lot_pattern(l))
    IN  IF Len(parts) # 4 THEN ParseError(l)
        ELSE Result("LimitMaxLot",
                 "Max Lot Size Limit / Account: " \o Text(parts[1])
                 \o " / Source: " \o DisplayName(Text(parts[2]))
                 \o " / Details: Trade volume " \o Text(parts[3])
                 \o " exceeded limit " \o Text(parts[4]) \o ". Trade ignored.",
                 NoTrade, None)

MaxTradesBranch(l) ==
    LET parts == Stripped(limit_max_trades_pattern(l))
    IN  IF Len(parts) # 4 THEN ParseError(l)
        ELSE Result("LimitMaxTrades",
                 "Max Concurrent Trades Limit / Account: " \o Text(parts[1])
                 \o " / Source: " \o DisplayName(Text(parts[2]))
                 \o " / Details: Limit of " \o Text(parts[4])
                 \o " open trades reached (" \o Text(parts[3])
                 \o " currently open). New trade ignored.",
                 NoTrade, None)

SourceDDBranch(l) ==
    LET parts == Stripped(limit_source_dd_pattern(l))
    IN  IF Len(parts) # 5 THEN ParseError(l)
        ELSE Result("LimitSourceDD",
                 "Source Drawdown Limit Hit / Account: " \o Text(parts[1])
                 \o " / Source: " \o DisplayName(Text(parts[2]))
                 \o " / Details: Floating P/L (" \o Text(parts[3])
                 \o ") reached limit (-" \o Text(parts[4])
                 \o "). Closed " \o Text(parts[5]) \o " position(s) from this source.",
                 NoTrade, None)

(* parse_and_format_log_line, for a line with one of the markers above (an *)
(* [ERROR] line is ErrorLine below): the first pattern that matches        *)
(* decides, and no match leaves (None, None).                              *)
parse_and_format_log_line(l) ==
    IF open_pattern(l) # NoMatch THEN OpenBranch(l)
    ELSE IF close_pattern(l) # NoMatch THEN CloseBranch(l)
    ELSE IF alert_pattern(l) # NoMatch THEN AlertBranch(l)
    ELSE IF stop_pattern(l) # NoMatch THEN StopBranch(l)
    ELSE IF reset_pattern(l) # NoMatch THEN ResetBranch(l)
    ELSE IF limit_max_lot_pattern(l) # NoMatch THEN MaxLotBranch(l)
    ELSE IF limit_max_trades_pattern(l) # NoMatch THEN MaxTradesBranch(l)
    ELSE IF limit_source_dd_pattern(l) # NoMatch THEN SourceDDBranch(l)
    ELSE Nothing

-----------------------------------------------------------------------------
(* Tailer tasks.  pc is the await the task is suspended at:                *)
(*   start  created, not yet run        read   asyncio.sleep(1)/readline   *)
(*   alert  await send_telegram_alert   db     await db_conn.execute/commit*)
(*   ended  returned                    cancelled  task.cancel() was called*)
NewTask(s, f) ==
    [slave |-> s, filepath |-> f, pc |-> "start", line |-> NoLine,
     msgName |-> None, expName |-> None, source_id |-> None]

(* A task of the process can take a step: no other task is in the middle  *)
(* of a stretch of code without await (a save of the state file, or the    *)
(* Health Monitor's walk between two alerts).                              *)
Running == savePc = "idle" /\ health.pc # "scan"

(* Back at readline: the locals of the line just handled are dead.         *)
Reading(r) ==
    [r EXCEPT !.pc = "read", !.line = NoLine, !.msgName = None,
              !.expName = None, !.source_id = None]

SetTask(k, r) == tasks' = [tasks EXCEPT ![k] = r]

(* The lines of a log file are numbered from 1 in the order they were      *)
(* written; a position in the file is the number of lines before it.       *)
Lines(f) == Get(logtext, f, 0)

SeekStart(f) == 0

(* f.seek(0, 2): the position after the last line the file holds now.      *)
SeekEnd(f) == Lines(f)

(* The with block of follow_log_file is left by the Tailers ks: their      *)
(* files are closed and their positions gone.                              *)
Closed(ks) == [k \in DOMAIN offset \ ks |-> offset[k]]

(* follow_log_file, first run: open(filepath); f.seek(0, 2).               *)
TailerOpen(k) ==
    /\ Running
    /\ tasks[k].pc = "start"
    /\ tasks[k].filepath \in DOMAIN logdir
    /\ SetTask(k, [tasks[k] EXCEPT !.pc = "read"])
    /\ offset' = Put(offset, k, [had |-> Lines(tasks[k].filepath),
                                 pos |-> SeekEnd(tasks[k].filepath)])
    /\ afterCycle' = FALSE
    /\ UNCHANGED <<corrVars, watched_slaves, diskVars, logdir, dispVars, histVars,
                   healthVars, parseVars, logtext, seen, main>>

(* parse_and_format_log_line on a TRADE_OPEN line, then the await of       *)
(* send_telegram_alert.                                                    *)
ParseOpen(k, line) ==
    LET name == DisplayName(line.source_file)
        changed == Get(state_data, line.ticket, None) # name
    IN  /\ Running
        /\ tasks[k].pc = "read"
        /\ linesRead < MaxLines
        /\ line \in OpenLines
        /\ Upsert(line.ticket, name)
        /\ SetTask(k, [tasks[k] EXCEPT !.pc = "alert", !.line = line,
                                       !.msgName = name, !.expName = None])
        /\ openName' = [openName EXCEPT ![line.ticket] = name]
        /\ pendingOpen' = pendingOpen \cup {line.ticket}
        /\ flushedOpen' = IF changed THEN flushedOpen \ {line.ticket} ELSE flushedOpen
        /\ linesRead' = linesRead + 1
        /\ UNCHANGED <<source_name_map, ledger, watched_slaves, diskVars, logdir, afterCycle,
                       dispVars, prevFile, newDoc, restarts,
                   healthVars, parseVars, tailVars, main>>

(* parse_and_format_log_line on a TRADE_CLOSE line, then the await of      *)
(* send_telegram_alert.  The store is only read here.                      *)
ParseClose(k, line) ==
    /\ Running
    /\ tasks[k].pc = "read"
    /\ linesRead < MaxLines
    /\ line \in CloseLines
    /\ SetTask(k, [tasks[k] EXCEPT
            !.pc = "alert", !.line = line,
            !.msgName = CloseName(line),
            !.expName = IF line.ticket \in DOMAIN state_data
                        THEN openName[line.ticket] ELSE None])
    /\ pendingOpen' = pendingOpen \ {line.ticket}
    /\ flushedOpen' = flushedOpen \ {line.ticket}
    /\ linesRead' = linesRead + 1
    /\ UNCHANGED <<corrVars, watched_slaves, diskVars, logdir, afterCycle, dispVars,
                   openName, prevFile, newDoc, restarts, healthVars, parseVars, tailVars, main>>

(* Any other line that yields a message: only the dispatcher is called.    *)
ParseInfo(k) ==
    /\ Running
    /\ tasks[k].pc = "read"
    /\ SetTask(k, [tasks[k] EXCEPT !.pc = "alert", !.line = InfoLine])
    /\ UNCHANGED <<corrVars, watched_slaves, diskVars, logdir, afterCycle, dispVars, histVars,
                   healthVars, parseVars, tailVars, main>>

(* A line for which the parser returns (None, None) (an empty line, a line *)
(* without marker, a throttled benign error): nothing is awaited and the   *)
(* Tailer reads on.                                                        *)
ParseSkip(k) ==
    /\ Running
    /\ tasks[k].pc = "read"
    /\ UNCHANGED vars

AlertDone_AnyLine(k) ==
    /\ Running
    /\ tasks[k].pc = "alert"
    /\ SetTask(k, Reading(tasks[k]))
    /\ UNCHANGED <<corrVars, watched_slaves, diskVars, logdir, afterCycle, dispVars, histVars,
                   healthVars, parseVars, tailVars, main>>

(* send_telegram_alert has returned and the line carried no trade data:    *)
(* back to readline.                                                       *)
AlertDone(k) ==
    /\ Running
    /\ tasks[k].pc = "alert"
    /\ tasks[k].line.kind # "CLOSE"
    /\ SetTask(k, Reading(tasks[k]))
    /\ UNCHANGED <<corrVars, watched_slaves, diskVars, logdir, afterCycle, dispVars, histVars,
                   healthVars, parseVars, tailVars, main>>

(* send_telegram_alert has returned for a TRADE_CLOSE line:                *)
(* save_trade_to_db runs up to its first await (db_conn.execute).  It      *)
(* writes the registry's current name of the source file under the ticket. *)
SaveTradeBegin(k) ==
    LET line == tasks[k].line
        name == DisplayName(line.source_file)
        changed == Get(state_data, line.ticket, None) # name
    IN  /\ Running
        /\ tasks[k].pc = "alert"
        /\ line.kind = "CLOSE"
        /\ Upsert(line.ticket, name)
        /\ SetTask(k, [tasks[k] EXCEPT !.pc = "db",
                                       !.source_id = SourceId(line.source_file)])
        /\ flushedOpen' = IF changed THEN flushedOpen \ {line.ticket} ELSE flushedOpen
        /\ UNCHANGED <<source_name_map, ledger, watched_slaves, diskVars, logdir, afterCycle,
                       dispVars, openName, pendingOpen, prevFile, newDoc,
                       linesRead, restarts, healthVars, parseVars, tailVars, main>>

LedgerRow(k) ==
    [copy_id |-> tasks[k].slave, source_id |-> tasks[k].source_id,
     profit |-> tasks[k].line.profit, source_file |-> tasks[k].line.source_file]

(* The INSERT and the commit succeeded: the row is in the ledger and the   *)
(* ticket's entry is deleted.                                              *)
SaveTradeOk(k) ==
    LET t == tasks[k].line.ticket
    IN  /\ Running
        /\ tasks[k].pc = "db"
        /\ ledger' = Append(ledger, LedgerRow(k))
        /\ state_data' = Del(state_data, t)
        /\ state_changed' = (state_changed \/ t \in DOMAIN state_data)
        /\ SetTask(k, Reading(tasks[k]))
        /\ openName' = [openName EXCEPT ![t] = None]
        /\ flushedOpen' = flushedOpen \ {t}
        /\ UNCHANGED <<source_name_map, watched_slaves, diskVars, logdir, afterCycle, dispVars,
                       pendingOpen, prevFile, newDoc, linesRead, restarts,
                   healthVars, parseVars, tailVars, main>>

SaveTradeFails_Ends(k) ==
    /\ Running
    /\ tasks[k].pc = "db"
    /\ SetTask(k, [tasks[k] EXCEPT !.pc = "ended"])
    /\ UNCHANGED <<corrVars, watched_slaves, diskVars, logdir, afterCycle, dispVars, histVars,
                   healthVars, parseVars, tailVars, main>>

(* The INSERT or the commit raised (aiosqlite.Error or any Exception): it  *)
(* is logged, and the entry written by SaveTradeBegin stays.               *)
SaveTradeFails(k) ==
    /\ Running
    /\ tasks[k].pc = "db"
    /\ SetTask(k, Reading(tasks[k]))
    /\ UNCHANGED <<corrVars, watched_slaves, diskVars, logdir, afterCycle, dispVars, histVars,
                   healthVars, parseVars, tailVars, main>>

-----------------------------------------------------------------------------
(* batch_state_saver, every 10 s: if state_changed, save_watcher_state.    *)
(* save_watcher_state is synchronous, so between FlushTick and the end of  *)
(* the flush no task runs; only a kill of the process can fall in between. *)
FlushTick_Always ==
    /\ savePc = "idle"
    /\ disk' = [disk EXCEPT ![TmpPath] = PartialFile]
    /\ savePc' = "opened"
    /\ prevFile' = disk[WATCHER_STATE_PATH]
    /\ newDoc' = state_data
    /\ UNCHANGED <<corrVars, taskVars, logdir, afterCycle, dispVars,
                   openName, flushedOpen, pendingOpen, linesRead, restarts,
                   healthVars, parseVars, tailVars, main>>

(* open(tmp_path, 'w') creates or truncates the temporary file.            *)
FlushTick ==
    /\ savePc = "idle"
    /\ state_changed
    /\ disk' = [disk EXCEPT ![TmpPath] = PartialFile]
    /\ savePc' = "opened"
    /\ prevFile' = disk[WATCHER_STATE_PATH]
    /\ newDoc' = state_data
    /\ UNCHANGED <<corrVars, taskVars, logdir, afterCycle, dispVars,
                   openName, flushedOpen, pendingOpen, linesRead, restarts,
                   healthVars, parseVars, tailVars, main>>

(* json.dump(state, f) and the close of the with block.                    *)
FlushWrite ==
    /\ savePc = "opened"
    /\ disk' = [disk EXCEPT ![TmpPath] = JsonFile(state_data)]
    /\ savePc' = "written"
    /\ UNCHANGED <<corrVars, taskVars, logdir, afterCycle, dispVars, histVars,
                   healthVars, parseVars, tailVars, main>>

(* os.replace(tmp_path, WATCHER_STATE_PATH); back in batch_state_saver,    *)
(* state_changed = False.                                                  *)
FlushReplace ==
    /\ savePc = "written"
    /\ disk' = OsReplace(disk, TmpPath, WATCHER_STATE_PATH)
    /\ savePc' = "idle"
    /\ state_changed' = FALSE
    /\ flushedOpen' = flushedOpen \cup
          { t \in pendingOpen :
               openName[t] # None /\ Get(state_data, t, None) = openName[t] }
    /\ prevFile' = disk'[WATCHER_STATE_PATH]
    /\ newDoc' = disk'[WATCHER_STATE_PATH].doc
    /\ UNCHANGED <<source_name_map, state_data, ledger, taskVars, logdir, afterCycle, dispVars,
                   openName, pendingOpen, linesRead, restarts,
                   healthVars, parseVars, tailVars, main>>

(* An exception inside save_watcher_state (open, dump or replace): it is   *)
(* logged, the temporary file is removed, and batch_state_saver clears the *)
(* flag all the same.                                                      *)
FlushFails ==
    /\ \/ savePc \in {"opened", "written"}
       \/ savePc = "idle" /\ state_changed
    /\ disk' = [disk EXCEPT ![TmpPath] = AbsentFile]
    /\ savePc' = "idle"
    /\ state_changed' = FALSE
    /\ prevFile' = disk'[WATCHER_STATE_PATH]
    /\ newDoc' = disk'[WATCHER_STATE_PATH].doc
    /\ UNCHANGED <<source_name_map, state_data, ledger, taskVars, logdir, afterCycle, dispVars,
                   openName, flushedOpen, pendingOpen, linesRead, restarts,
                   healthVars, parseVars, tailVars, main>>

-----------------------------------------------------------------------------
(* The Rotation Manager: one pass of the while loop of main.               *)

(* A log file's name is TradeCopier_<id>_<date>.log; the regular expression*)
(* captures <id>, and an empty capture is ignored.                         *)
SlaveIdOf(f) == f.id

FilesOf(s) == {f \in DOMAIN logdir : SlaveIdOf(f) = s}

OldestSet(s) == {f \in FilesOf(s) : \A g \in FilesOf(s) : logdir[f] <= logdir[g]}

(* max(files, key=os.path.getctime): a file no other file of the id is     *)
(* newer than (which one, among equally new files, is the listing's order).*)
LatestSet(s) == {f \in FilesOf(s) : \A g \in FilesOf(s) : logdir[g] <= logdir[f]}

IdsInDir == {SlaveIdOf(f) : f \in DOMAIN logdir} \ {""}

Gen(s) == Cardinality({k \in DOMAIN tasks : k[1] = s})

NeedsTailer_Always(s, latest) == TRUE
NeedsTailer_Done(s, latest) ==
    \/ s \notin DOMAIN watched_slaves
    \/ watched_slaves[s].filepath # latest
    \/ tasks[watched_slaves[s].task].pc = "ended"

(* slave_id not in watched_slaves or watched_slaves[slave_id]['filepath']  *)
(* != latest_file                                                          *)
NeedsTailer(s, latest) ==
    \/ s \notin DOMAIN watched_slaves
    \/ watched_slaves[s].filepath # latest

Cancel_Lost(r) == r

(* task.cancel(): nothing happens to a task that is done already.          *)
Cancel(r) == IF r.pc \in {"ended", "cancelled"} THEN r ELSE [r EXCEPT !.pc = "cancelled"]

(* The body of one pass as far as the ids `ids` of the for loop: the       *)
(* registry is reloaded, the directory listed, and every id of `ids` whose *)
(* newest file is not the watched one gets a new Tailer after the old one  *)
(* was cancelled.                                                          *)
CyclePart(reg, pick, ids) ==
    LET need  == {s \in ids : NeedsTailer(s, pick[s])}
        newId(s) == <<s, Gen(s) + 1>>
        fresh == {newId(s) : s \in need}
        old   == {watched_slaves[s].task : s \in need \cap DOMAIN watched_slaves}
    IN  /\ Running
        /\ reg \in Registries
        /\ pick \in [IdsInDir -> DOMAIN logdir]
        /\ \A s \in IdsInDir : pick[s] \in LatestSet(s)
        /\ \A s \in need : Gen(s) < MaxTasks
        /\ source_name_map' = reg
        /\ watched_slaves' =
              [s \in DOMAIN watched_slaves \cup need |->
                  IF s \in need THEN [filepath |-> pick[s], task |-> newId(s)]
                  ELSE watched_slaves[s]]
        /\ tasks' =
              [k \in DOMAIN tasks \cup fresh |->
                  IF k \in DOMAIN tasks
                  THEN IF k \in old THEN Cancel(tasks[k]) ELSE tasks[k]
                  ELSE NewTask(k[1], pick[k[1]])]
        /\ offset' = Closed(old)
        /\ UNCHANGED <<state_data, state_changed, ledger, diskVars, logdir,
                       dispVars, histVars, healthVars, parseVars, logtext, seen>>

(* A pass that reaches its sleep: every id of the listing was handled.     *)
CycleBody(reg, pick) ==
    /\ CyclePart(reg, pick, IdsInDir)
    /\ afterCycle' = TRUE

(* One pass of the loop, whenever it comes (the sleep is not timed).       *)
MainCycle(reg, pick) ==
    /\ CycleBody(reg, pick)
    /\ UNCHANGED main

-----------------------------------------------------------------------------
(* main inside its while loop, the next pass due at `wake`.                *)
MainLoop(wake) == [pc |-> "loop", wake |-> wake, critical |-> 0]

(* source_health_check asleep: it wakes at `wake`; its other locals are    *)
(* dead.                                                                   *)
ScanSleep == 60

HealthIdle(wake) ==
    [pc |-> "sleep", wake |-> wake, now |-> 0, scanned |-> EmptyMap,
     todo |-> {}, checked |-> {}, file |-> None, kind |-> None]

-----------------------------------------------------------------------------
(* The process is killed (at any point, also inside a flush) and started   *)
(* again: main runs up to its loop.  Memory is lost, the files stay.       *)
Restart ==
    LET loaded == LoadWatcherState(disk[WATCHER_STATE_PATH])
    IN  /\ restarts < MaxRestarts
        /\ restarts' = restarts + 1
        /\ state_data' = loaded
        /\ state_changed' = FALSE
        /\ source_name_map' = EmptyMap
        /\ watched_slaves' = EmptyMap
        /\ tasks' = EmptyMap
        /\ savePc' = "idle"
        /\ openName' = [t \in Tickets |->
                          IF Get(loaded, t, None) = openName[t] THEN openName[t] ELSE None]
        /\ afterCycle' = FALSE
        /\ prevFile' = disk[WATCHER_STATE_PATH]
        /\ newDoc' = disk[WATCHER_STATE_PATH].doc
        /\ source_statuses' = EmptyMap
        /\ health' = HealthIdle(now + ScanSleep)
        /\ offset' = EmptyMap
        /\ main' = MainLoop(now)
        /\ UNCHANGED <<ledger, disk, logdir, dispVars, srcfiles, alerted,
                       flushedOpen, pendingOpen, linesRead, parseVars, logtext, seen>>

-----------------------------------------------------------------------------
(* The state after construction: module level initialisation and main up   *)
(* to its loop (state_data = load_watcher_state(), watched_slaves = {}).   *)
StartTime == 4000

Callers == {"watcher_copy_A", "watcher_copy_B", "SourceHealthCheck"}

Messages == {"m1", "m2"}

IdleCall ==
    [pc |-> "idle", msg |-> None, target |-> None, current_time |-> 0,
     attempt |-> 0, delay |-> 0, wake |-> 0, key |-> None]

NoLog ==
    [msg |-> None, start |-> 0, primary |-> 0, fallback |-> 0, waits |-> <<>>,
     result |-> "none", repeatOfDelivered |-> FALSE, repeatOfPrev |-> FALSE]

LogFile(s, d) == [id |-> s, date |-> d]

InitDir == [f \in {LogFile(s, 1) : s \in SlaveIds} |-> 1]

InitMemory ==
    /\ source_name_map = EmptyMap
    /\ state_changed = FALSE
    /\ watched_slaves = EmptyMap
    /\ tasks = EmptyMap
    /\ ledger = <<>>
    /\ savePc = "idle"
    /\ now = StartTime
    /\ last_message_hash = None
    /\ last_message_time = 0
    /\ g_benign_error_last_sent = EmptyMap
    /\ calls = [c \in Callers |-> IdleCall]
    /\ netlog = [c \in Callers |-> NoLog]
    /\ lastDelivered = [msg |-> None, start |-> 0]
    /\ prevCall = [caller |-> None, msg |-> None, start |-> 0, done |-> TRUE]
    /\ window = EmptyMap
    /\ source_statuses = EmptyMap
    /\ health = HealthIdle(StartTime + ScanSleep)
    /\ srcfiles = [f \in SourceFiles |-> StartTime]
    /\ alerted = EmptyMap
    /\ logline = NoLogLine
    /\ parsed = NotParsed
    /\ logtext = EmptyMap
    /\ offset = EmptyMap
    /\ seen = <<>>
    /\ main = MainLoop(StartTime)
    /\ openName = [t \in Tickets |-> None]
    /\ flushedOpen = {}
    /\ pendingOpen = {}
    /\ linesRead = 0
    /\ restarts = 0
    /\ afterCycle = FALSE

(* main up to its loop when the state file is f.                           *)
InitState(f) ==
    /\ disk = [p \in {WATCHER_STATE_PATH, "tmp"} |->
                  IF p = WATCHER_STATE_PATH THEN f ELSE AbsentFile]
    /\ state_data = LoadWatcherState(f)
    /\ prevFile = f
    /\ newDoc = f.doc

(* The first start: there is no state file yet.                            *)
InitCommon ==
    /\ InitMemory
    /\ InitState(AbsentFile)

(* Two Tailers (one log file per copy account) sharing the in-memory       *)
(* Correlation Store, the registry being reloaded by every cycle.          *)
Init ==
    /\ InitCommon
    /\ CHANNEL_ID = "channel"
    /\ logdir = InitDir

Next ==
    \/ \E reg \in Registries, pick \in [IdsInDir -> DOMAIN logdir] : MainCycle(reg, pick)
    \/ \E k \in DOMAIN tasks : TailerOpen(k)
    \/ \E k \in DOMAIN tasks, line \in OpenLines : ParseOpen(k, line)
    \/ \E k \in DOMAIN tasks, line \in CloseLines : ParseClose(k, line)
    \/ \E k \in DOMAIN tasks : ParseInfo(k)
    \/ \E k \in DOMAIN tasks : ParseSkip(k)
    \/ \E k \in DOMAIN tasks : AlertDone(k)
    \/ \E k \in DOMAIN tasks : SaveTradeBegin(k)
    \/ \E k \in DOMAIN tasks : SaveTradeOk(k)
    \/ \E k \in DOMAIN tasks : SaveTradeFails(k)

Spec == Init /\ [][Next]_vars

(* One Tailer, the flush task and the state file; the process may be       *)
(* killed at any step and started again.                                   *)
InitPersist ==
    /\ InitCommon
    /\ CHANNEL_ID = "channel"
    /\ logdir = [f \in {LogFile("copy_A", 1)} |-> 1]

NextPersist ==
    \/ Next
    \/ FlushTick
    \/ FlushWrite
    \/ FlushReplace
    \/ FlushFails
    \/ Restart

SpecPersist == InitPersist /\ [][NextPersist]_vars

-----------------------------------------------------------------------------
(* C1: a TRADE_CLOSE line whose ticket has an entry created by an earlier  *)
(* TRADE_OPEN is announced with exactly the display name that was stored   *)
(* at open time, whatever the registry says by then.  Every Tailer that    *)
(* has formatted a close message for such a ticket (expName is the name    *)
(* the open stored) holds that name in the message.                        *)
C1_CloseCarriesOpenName ==
    \A k \in DOMAIN tasks :
        tasks[k].expName # None => tasks[k].msgName = tasks[k].expName

(* C2: when a Tailer has finished a TRADE_CLOSE line (it returns from      *)
(* save_trade_to_db to readline), the store holds no entry for the line's  *)
(* ticket, whether the ledger append succeeded or failed.                  *)
C2_NoEntryAfterClose ==
    [][ \A k \in DOMAIN tasks :
          (k \in DOMAIN tasks' /\ tasks[k].pc = "db" /\ tasks'[k].pc = "read")
             => tasks[k].line.ticket \notin DOMAIN state_data' ]_vars

(* C3: the parse step of a TRADE_OPEN line with ticket T and source file F *)
(* leaves T -> (registry name of F, or F when F is not registered) in the  *)
(* store, with the dirty flag set when the value changed, and the Tailer   *)
(* is only then suspended at the alert dispatch.                           *)
C3_OpenStoresName ==
    [][ \A k \in DOMAIN tasks :
          (/\ k \in DOMAIN tasks'
           /\ tasks[k].pc = "read"
           /\ tasks'[k].pc = "alert"
           /\ tasks'[k].line.kind = "OPEN")
          => LET t == tasks'[k].line.ticket
                 f == tasks'[k].line.source_file
                 n == IF f \in DOMAIN source_name_map
                      THEN source_name_map[f].name ELSE f
             IN  /\ t \in DOMAIN state_data'
                 /\ state_data'[t] = n
                 /\ tasks'[k].msgName = n
                 /\ (Get(state_data, t, None) # n => state_changed') ]_vars

C3_Witness ==
    \E k \in DOMAIN tasks :
        /\ tasks[k].pc = "alert"
        /\ tasks[k].line.kind = "OPEN"
        /\ tasks[k].line.ticket \in DOMAIN state_data
        /\ state_data[tasks[k].line.ticket] = "Alpha Feed"
        /\ state_changed

(* C4 as stated: whenever the process is killed after a TRADE_OPEN and     *)
(* before a TRADE_CLOSE of the ticket, the restarted process maps the      *)
(* ticket to the name stored at open time.                                 *)
C4_RestartKeepsOpenEntry ==
    [][ restarts' = restarts + 1 =>
          \A t \in pendingOpen :
              openName[t] # None =>
                  (t \in DOMAIN state_data' /\ state_data'[t] = openName[t]) ]_vars

(* C4 amended: the restarted process maps the ticket to the name stored at *)
(* open time when, in addition, a flush has replaced the state file after  *)
(* the open was processed and the ticket's entry has not changed since.    *)
C4_RestartKeepsFlushedEntry ==
    [][ restarts' = restarts + 1 =>
          \A t \in flushedOpen :
              (t \in DOMAIN state_data' /\ state_data'[t] = openName[t]) ]_vars

C4_Witness ==
    /\ restarts = 1
    /\ tasks = EmptyMap
    /\ \E t \in flushedOpen : t \in DOMAIN state_data /\ state_data[t] = "Alpha Feed"

(* C5: whatever step of save_watcher_state the process is killed at, the   *)
(* state file is absent or a complete document, and it is the version from *)
(* before the save or the version being saved; a partial document is       *)
(* never what the next start reads.                                        *)
C5_StateFileNeverPartial ==
    LET f == disk[WATCHER_STATE_PATH]
    IN  /\ f.kind \in {"absent", "json"}
        /\ prevFile.kind \in {"absent", "json"}
        /\ f = prevFile \/ f = JsonFile(newDoc)

C5_Witness ==
    /\ restarts = 1
    /\ tasks = EmptyMap
    /\ disk[TmpPath].kind = "partial"
    /\ disk[WATCHER_STATE_PATH].kind = "json"
    /\ state_data = disk[WATCHER_STATE_PATH].doc
    /\ state_data # EmptyMap

-----------------------------------------------------------------------------
(* The Alert Dispatcher: send_telegram_alert, from one await to the next.  *)
MaxTime == 11          \* seconds the dispatcher's clock runs for

ADMIN_ID == "admin"

DEDUPLICATION_COOLDOWN == 10

max_retries_more == 3 + 1

max_retries == 3

(* hash(message): equal texts have equal hashes; the texts of the model    *)
(* have different hashes (Python's str hash has 64 bits).                  *)
Hash(m) == "hash:" \o m

(* target_id = CHANNEL_ID if CHANNEL_ID else ADMIN_ID                      *)
TargetId == IF CHANNEL_ID # None THEN CHANNEL_ID ELSE ADMIN_ID

IsDuplicate_Reversed(msg, t) ==
    /\ Hash(msg) = last_message_hash
    /\ (t - last_message_time) > DEDUPLICATION_COOLDOWN

(* message_hash == last_message_hash and                                   *)
(* (current_time - last_message_time) < DEDUPLICATION_COOLDOWN             *)
IsDuplicate(msg, t) ==
    /\ Hash(msg) = last_message_hash
    /\ (t - last_message_time) < DEDUPLICATION_COOLDOWN

Bump(w, key, f) ==
    IF key \in DOMAIN w THEN [w EXCEPT ![key][f] = @ + 1] ELSE w

(* The call returns: its locals are dead.                                  *)
Return(c, result) ==
    /\ calls' = [calls EXCEPT ![c] = IdleCall]
    /\ netlog' = [netlog EXCEPT ![c].result = result]
    /\ prevCall' = IF prevCall.caller = c THEN [prevCall EXCEPT !.done = TRUE]
                   ELSE prevCall

(* send_telegram_alert up to its first await: the duplicate check, then    *)
(* the first send_message to the target.                                   *)
BeginSend(c, msg, key) ==
    LET dup == IsDuplicate(msg, now)
        log == [msg |-> msg, start |-> now,
                primary |-> IF dup THEN 0 ELSE 1, fallback |-> 0, waits |-> <<>>,
                result |-> IF dup THEN "dropped" ELSE "pending",
                repeatOfDelivered |->
                    /\ lastDelivered.msg = msg
                    /\ now - lastDelivered.start < DEDUPLICATION_COOLDOWN,
                repeatOfPrev |->
                    /\ prevCall.msg = msg
                    /\ prevCall.done
                    /\ now - prevCall.start < DEDUPLICATION_COOLDOWN]
    IN  /\ calls[c].pc = "idle"
        /\ calls' = [calls EXCEPT ![c] =
              IF dup THEN IdleCall
              ELSE [pc |-> "sending", msg |-> msg, target |-> TargetId,
                    current_time |-> now, attempt |-> 0, delay |-> 1,
                    wake |-> 0, key |-> key]]
        /\ netlog' = [netlog EXCEPT ![c] = log]
        /\ prevCall' = [caller |-> c, msg |-> msg, start |-> now, done |-> dup]
        /\ UNCHANGED <<now, CHANNEL_ID, last_message_hash, last_message_time,
                       lastDelivered>>

(* Some task calls send_telegram_alert(context, msg).                      *)
Send(c, msg) ==
    /\ BeginSend(c, msg, None)
    /\ UNCHANGED <<corrVars, taskVars, diskVars, logdir, afterCycle, histVars,
                   g_benign_error_last_sent, window, healthVars, parseVars, tailVars, main>>

(* send_message to the target returned: the message is recorded for the    *)
(* duplicate check, with the time the call began.                          *)
SendOk(c) ==
    /\ calls[c].pc = "sending"
    /\ last_message_hash' = Hash(calls[c].msg)
    /\ last_message_time' = calls[c].current_time
    /\ lastDelivered' = [msg |-> calls[c].msg, start |-> calls[c].current_time]
    /\ Return(c, "sent")
    /\ window' = Bump(window, calls[c].key, "delivered")
    /\ UNCHANGED <<corrVars, taskVars, diskVars, logdir, afterCycle, histVars,
                   now, CHANNEL_ID, g_benign_error_last_sent,
                   healthVars, parseVars, tailVars, main>>

(* send_message raised TelegramError: sleep delay and retry while          *)
(* attempt < max_retries; after the last attempt, one send to ADMIN_ID if  *)
(* the target was the channel.                                             *)
SendTelegramError(c) ==
    /\ calls[c].pc = "sending"
    /\ IF calls[c].attempt < max_retries
       THEN /\ calls' = [calls EXCEPT ![c].pc = "backoff",
                                      ![c].wake = now + calls[c].delay]
            /\ netlog' = [netlog EXCEPT ![c].waits = Append(@, calls[c].delay)]
            /\ UNCHANGED prevCall
       ELSE IF calls[c].target = CHANNEL_ID /\ ADMIN_ID # None
       THEN /\ calls' = [calls EXCEPT ![c].pc = "fallback"]
            /\ netlog' = [netlog EXCEPT ![c].fallback = @ + 1]
            /\ UNCHANGED prevCall
       ELSE Return(c, "failed")
    /\ UNCHANGED <<corrVars, taskVars, diskVars, logdir, afterCycle, histVars,
                   now, CHANNEL_ID, last_message_hash, last_message_time,
                   g_benign_error_last_sent, lastDelivered, window,
                   healthVars, parseVars, tailVars, main>>

(* send_message raised something else: logged, and the call returns.       *)
SendOtherError(c) ==
    /\ calls[c].pc = "sending"
    /\ Return(c, "error")
    /\ UNCHANGED <<corrVars, taskVars, diskVars, logdir, afterCycle, histVars,
                   now, CHANNEL_ID, last_message_hash, last_message_time,
                   g_benign_error_last_sent, lastDelivered, window,
                   healthVars, parseVars, tailVars, main>>

(* asyncio.sleep(delay) is over: delay *= 2 and the next attempt.          *)
BackoffDone(c) ==
    /\ calls[c].pc = "backoff"
    /\ now >= calls[c].wake
    /\ calls' = [calls EXCEPT ![c].pc = "sending",
                              ![c].attempt = @ + 1,
                              ![c].delay = @ * 2]
    /\ netlog' = [netlog EXCEPT ![c].primary = @ + 1]
    /\ UNCHANGED <<corrVars, taskVars, diskVars, logdir, afterCycle, histVars,
                   now, CHANNEL_ID, last_message_hash, last_message_time,
                   g_benign_error_last_sent, lastDelivered, prevCall, window,
                   healthVars, parseVars, tailVars, main>>
FallbackOk_Records(c) ==
    /\ calls[c].pc = "fallback"
    /\ Return(c, "fallback")
    /\ window' = Bump(window, calls[c].key, "delivered")
    /\ last_message_hash' = Hash(calls[c].msg)
    /\ last_message_time' = calls[c].current_time
    /\ UNCHANGED <<corrVars, taskVars, diskVars, logdir, afterCycle, histVars,
                   now, CHANNEL_ID, g_benign_error_last_sent, lastDelivered,
                   healthVars, parseVars, tailVars, main>>

(* The send to ADMIN_ID returned.                                          *)
FallbackOk(c) ==
    /\ calls[c].pc = "fallback"
    /\ Return(c, "fallback")
    /\ window' = Bump(window, calls[c].key, "delivered")
    /\ UNCHANGED <<corrVars, taskVars, diskVars, logdir, afterCycle, histVars,
                   now, CHANNEL_ID, last_message_hash, last_message_time,
                   g_benign_error_last_sent, lastDelivered,
                   healthVars, parseVars, tailVars, main>>

(* The send to ADMIN_ID raised: TelegramError is logged; anything else     *)
(* leaves send_telegram_alert as an exception.  The message is dropped.    *)
FallbackFails(c, result) ==
    /\ calls[c].pc = "fallback"
    /\ result \in {"failed", "raised"}
    /\ Return(c, result)
    /\ UNCHANGED <<corrVars, taskVars, diskVars, logdir, afterCycle, histVars,
                   now, CHANNEL_ID, last_message_hash, last_message_time,
                   g_benign_error_last_sent, lastDelivered, window,
                   healthVars, parseVars, tailVars, main>>

(* A second passes.                                                        *)
Tick ==
    /\ now < StartTime + MaxTime
    /\ now' = now + 1
    /\ UNCHANGED <<corrVars, taskVars, diskVars, logdir, afterCycle, histVars,
                   CHANNEL_ID, last_message_hash, last_message_time,
                   g_benign_error_last_sent, calls, netlog, lastDelivered,
                   prevCall, window, healthVars, parseVars, tailVars, main>>

(* One task sending messages through the dispatcher, the channel being     *)
(* configured or not.                                                      *)
Sender == "watcher_copy_A"

InitDispatch ==
    /\ InitCommon
    /\ CHANNEL_ID \in {"channel", None}
    /\ logdir = InitDir

NextDispatch ==
    \/ \E msg \in Messages : Send(Sender, msg)
    \/ SendOk(Sender)
    \/ SendTelegramError(Sender)
    \/ SendOtherError(Sender)
    \/ BackoffDone(Sender)
    \/ FallbackOk(Sender)
    \/ \E r \in {"failed", "raised"} : FallbackFails(Sender, r)
    \/ Tick

SpecDispatch == InitDispatch /\ [][NextDispatch]_vars

-----------------------------------------------------------------------------
(* C6 as stated: a call with the same text as the call before it, which    *)
(* has returned, starting less than 10 s after that call started, is       *)
(* dropped without any delivery attempt.                                   *)
C6_RepeatIsDropped ==
    \A c \in Callers :
        netlog[c].repeatOfPrev =>
            (netlog[c].result = "dropped" /\ netlog[c].primary = 0)

(* C6 amended: a call with the same text as the last message delivered to  *)
(* the primary destination, starting less than 10 s after that delivered   *)
(* call started, is dropped without contacting the messaging platform.     *)
C6_RepeatOfDeliveredIsDropped ==
    \A c \in Callers :
        netlog[c].repeatOfDelivered =>
            /\ netlog[c].result = "dropped"
            /\ netlog[c].primary = 0
            /\ netlog[c].fallback = 0
            /\ calls[c].pc = "idle"

C6_Witness ==
    \E c \in Callers :
        /\ netlog[c].repeatOfDelivered
        /\ netlog[c].result = "dropped"
        /\ netlog[c].msg = lastDelivered.msg
        /\ netlog[c].start > lastDelivered.start

(* C8: a message that passes deduplication is sent to the primary          *)
(* destination at most 4 times, with sleeps of 1 s, 2 s and 4 s between    *)
(* the attempts; the administrator is tried at most once, and only after   *)
(* 4 failed primary attempts; once the fallback has failed the call is     *)
(* over and nothing more is attempted.                                     *)
C8_BoundedAttempts ==
    \A c \in Callers :
        LET l == netlog[c]
        IN  /\ l.primary <= 4
            /\ l.fallback <= 1
            /\ Len(l.waits) <= 3
            /\ l.waits = SubSeq(<<1, 2, 4>>, 1, Len(l.waits))
            /\ l.result = "dropped" => l.primary = 0 /\ l.fallback = 0
            /\ l.result \notin {"dropped", "none"} =>
                   l.primary \in {Len(l.waits), Len(l.waits) + 1}
            /\ l.fallback = 1 =>
                   /\ l.primary = 4
                   /\ l.waits = <<1, 2, 4>>
                   /\ l.result \in {"pending", "fallback", "failed", "raised"}
            /\ l.result \in {"failed", "raised", "fallback", "sent", "error"} =>
                   calls[c].pc = "idle"
            /\ calls[c].pc = "fallback" => l.fallback = 1

C8_Witness ==
    \E c \in Callers :
        /\ netlog[c].result = "failed"
        /\ netlog[c].fallback = 1
        /\ netlog[c].primary = 4
        /\ netlog[c].waits = <<1, 2, 4>>

-----------------------------------------------------------------------------
(* Benign-error throttle: the [ERROR] branch of parse_and_format_log_line  *)
(* in front of the dispatcher.                                             *)

MaxBenignTime == 450   \* seconds the throttle's clock runs for
MaxBurst == 2          \* [ERROR] lines of one key inside one window

ElapseSteps == {150}

(* The dict keeps its insertion order and the loop takes the first key     *)
(* found in the text.                                                      *)
BENIGN_ERROR_CONFIG ==
    << [key |-> "Market is closed",           cooldown |-> 3600],
       [key |-> "error 10013",                cooldown |-> 3600],
       [key |-> "Invalid Stops",              cooldown |-> 600],
       [key |-> "error 130",                  cooldown |-> 600],
       [key |-> "Requote",                    cooldown |-> 600],
       [key |-> "error 10004",                cooldown |-> 600],
       [key |-> "Price changed",              cooldown |-> 600],
       [key |-> "error 10006",                cooldown |-> 600],
       [key |-> "Failed to open source file", cooldown |-> 300],
       [key |-> "No connection",              cooldown |-> 300],
       [key |-> "error 10025",                cooldown |-> 300] >>

ErrorTexts ==
    {"No connection",
     "Failed to open source file: No connection",
     "Trade context busy"}

(* error_key in error_message, for the texts above.                        *)
KeysIn(text) ==
    CASE text = "No connection" -> {"No connection"}
      [] text = "Failed to open source file: No connection" ->
             {"Failed to open source file", "No connection"}
      [] OTHER -> {}
FoundBenignKey_First(text) == 1

(* Index of found_benign_key in the configuration, 0 for None.             *)
FoundBenignKey(text) ==
    LET hits == {i \in 1..Len(BENIGN_ERROR_CONFIG) :
                    BENIGN_ERROR_CONFIG[i].key \in KeysIn(text)}
    IN  IF hits = {} THEN 0
        ELSE CHOOSE i \in hits : \A j \in hits : i <= j

Cooldown(key) ==
    LET i == CHOOSE j \in 1..Len(BENIGN_ERROR_CONFIG) :
                 BENIGN_ERROR_CONFIG[j].key = key
    IN  BENIGN_ERROR_CONFIG[i].cooldown

CooldownOver_Dedup(key, cooldown_period) ==
    (now - Get(g_benign_error_last_sent, key, 0)) > DEDUPLICATION_COOLDOWN

(* (current_time - last_sent_time) > cooldown_period                       *)
CooldownOver(key, cooldown_period) ==
    (now - Get(g_benign_error_last_sent, key, 0)) > cooldown_period

CriticalMessage(text) == "Critical Expert Error: " \o text

BenignMessage(text) == "Benign Error (Rate-Limited): " \o text

(* The window of a key opens with its first [ERROR] line and is over once  *)
(* more than the key's cooldown has passed since that line.                *)
WindowOpen(key) ==
    /\ key \in DOMAIN window
    /\ ~ (now - window[key].start > Cooldown(key))

Counted(key, sent) ==
    LET a == IF sent THEN 1 ELSE 0
    IN  IF WindowOpen(key)
        THEN [window EXCEPT ![key].n = @ + 1, ![key].alerts = @ + a]
        ELSE Put(window, key,
                 [start |-> now, n |-> 1, alerts |-> a, delivered |-> 0,
                  idx |-> IF key \in DOMAIN window THEN window[key].idx + 1
                          ELSE 1])

ErrorLine_Refreshes(c, text) ==
    LET i == FoundBenignKey(text)
        found_benign_key == BENIGN_ERROR_CONFIG[i].key
        cooldown_period == BENIGN_ERROR_CONFIG[i].cooldown
    IN  /\ calls[c].pc = "idle"
        /\ IF i = 0
           THEN /\ BeginSend(c, CriticalMessage(text), None)
                /\ UNCHANGED <<g_benign_error_last_sent, window, parseVars, tailVars, main>>
           ELSE IF CooldownOver(found_benign_key, cooldown_period)
           THEN /\ g_benign_error_last_sent' =
                       Put(g_benign_error_last_sent, found_benign_key, now)
                /\ BeginSend(c, BenignMessage(text), found_benign_key)
                /\ window' = Counted(found_benign_key, TRUE)
           ELSE /\ WindowOpen(found_benign_key) =>
                       window[found_benign_key].n < MaxBurst
                /\ window' = Counted(found_benign_key, FALSE)
                /\ g_benign_error_last_sent' =
                       Put(g_benign_error_last_sent, found_benign_key, now)
                /\ UNCHANGED <<now, CHANNEL_ID, last_message_hash,
                               last_message_time,
                               calls, netlog, lastDelivered, prevCall, parseVars, tailVars, main>>
        /\ UNCHANGED <<corrVars, taskVars, diskVars, logdir, afterCycle, histVars,
                   healthVars, parseVars, tailVars, main>>

(* The Tailer c reads an [ERROR] line: a text with no benign key is always *)
(* sent; a text with a benign key is sent when the key's cooldown is over, *)
(* and the key's timer restarts before the alert is dispatched; otherwise  *)
(* the line yields no message.                                             *)
ErrorLine(c, text) ==
    LET i == FoundBenignKey(text)
        found_benign_key == BENIGN_ERROR_CONFIG[i].key
        cooldown_period == BENIGN_ERROR_CONFIG[i].cooldown
    IN  /\ calls[c].pc = "idle"
        /\ IF i = 0
           THEN /\ BeginSend(c, CriticalMessage(text), None)
                /\ UNCHANGED <<g_benign_error_last_sent, window, parseVars, tailVars, main>>
           ELSE IF CooldownOver(found_benign_key, cooldown_period)
           THEN /\ g_benign_error_last_sent' =
                       Put(g_benign_error_last_sent, found_benign_key, now)
                /\ BeginSend(c, BenignMessage(text), found_benign_key)
                /\ window' = Counted(found_benign_key, TRUE)
           ELSE /\ WindowOpen(found_benign_key) =>
                       window[found_benign_key].n < MaxBurst
                /\ window' = Counted(found_benign_key, FALSE)
                /\ UNCHANGED <<now, CHANNEL_ID, last_message_hash,
                               last_message_time, g_benign_error_last_sent,
                               calls, netlog, lastDelivered, prevCall, parseVars, tailVars, main>>
        /\ UNCHANGED <<corrVars, taskVars, diskVars, logdir, afterCycle, histVars,
                   healthVars, parseVars, tailVars, main>>

(* Time passes between two log lines.                                      *)
Elapse(d) ==
    /\ now + d <= StartTime + MaxBenignTime
    /\ now' = now + d
    /\ UNCHANGED <<corrVars, taskVars, diskVars, logdir, afterCycle, histVars,
                   CHANNEL_ID, last_message_hash, last_message_time,
                   g_benign_error_last_sent, calls, netlog, lastDelivered,
                   prevCall, window, healthVars, parseVars, tailVars, main>>

InitBenign ==
    /\ InitCommon
    /\ CHANNEL_ID = "channel"
    /\ logdir = InitDir

NextBenign ==
    \/ \E text \in ErrorTexts : ErrorLine(Sender, text)
    \/ SendOk(Sender)
    \/ SendTelegramError(Sender)
    \/ SendOtherError(Sender)
    \/ BackoffDone(Sender)
    \/ FallbackOk(Sender)
    \/ \E r \in {"failed", "raised"} : FallbackFails(Sender, r)
    \/ \E d \in ElapseSteps : Elapse(d)

SpecBenign == InitBenign /\ [][NextBenign]_vars

(* C7 as stated: once the alert of a window has been dealt with, exactly   *)
(* one alert of that window has been delivered.                            *)
C7_OneDeliveredAlertPerWindow ==
    calls[Sender].pc = "idle" =>
        \A key \in DOMAIN window : window[key].delivered = 1

(* C7 amended: the [ERROR] lines of one benign key inside one cooldown     *)
(* window hand exactly one alert to the dispatcher, the first line of the  *)
(* window; that alert is delivered at most once, and not at all when the   *)
(* dispatcher fails; the first line of that key more than the cooldown     *)
(* after the window's first line opens the next window with its own alert. *)
C7_OneAlertPerWindow ==
    \A key \in DOMAIN window :
        /\ window[key].alerts = 1
        /\ window[key].delivered <= 1
        /\ g_benign_error_last_sent[key] = window[key].start

C7_Witness ==
    \E key \in DOMAIN window :
        /\ window[key].idx = 2
        /\ window[key].n >= 2
        /\ window[key].alerts = 1
        /\ window[key].delivered = 1

-----------------------------------------------------------------------------
(* Rotation: the log directory changes under the Rotation Manager, and     *)
(* Tailers end on their own.                                               *)

Dates == {1, 2}

Ctimes == {1, 2}

(* copy_A logs to a new file on each date, copy_B to one file only.        *)
LogFiles == {LogFile("copy_A", d) : d \in Dates} \cup {LogFile("copy_B", 1)}

(* The copier creates TradeCopier_<id>_<date>.log.                         *)
DirCreate(f, ct) ==
    /\ f \in LogFiles \ DOMAIN logdir
    /\ ct \in Ctimes
    /\ logdir' = [g \in DOMAIN logdir \cup {f} |-> IF g = f THEN ct ELSE logdir[g]]
    /\ afterCycle' = FALSE
    /\ UNCHANGED <<corrVars, taskVars, diskVars, dispVars, histVars, healthVars, parseVars, tailVars, main>>

(* A log file is removed from the directory.                               *)
DirDelete(f) ==
    /\ f \in DOMAIN logdir
    /\ logdir' = [g \in DOMAIN logdir \ {f} |-> logdir[g]]
    /\ afterCycle' = FALSE
    /\ UNCHANGED <<corrVars, taskVars, diskVars, dispVars, histVars, healthVars, parseVars, tailVars, main>>

(* task.set_name(f"watcher_{slave_id}")                                    *)
TaskName(k) == "watcher_" \o k[1]

(* os.path.basename(filepath) of TradeCopier_<id>_<date>.log               *)
FileName(f) == "TradeCopier_" \o f.id \o "_" \o ToString(f.date) \o ".log"

(* What str(e) of an exception ending a Tailer can be.                     *)
Errors == {"Permission denied", "invalid start byte"}

WatcherError(k, e) ==
    "Critical Watcher Error: Task " \o TaskName(k) \o " failed while watching "
    \o FileName(tasks[k].filepath) \o " Error: " \o e

TailerOpenFails_Loud(k) ==
    /\ Running
    /\ tasks[k].pc = "start"
    /\ tasks[k].filepath \notin DOMAIN logdir
    /\ calls[TaskName(k)].pc = "idle"
    /\ BeginSend(TaskName(k), WatcherError(k, "No such file or directory"), None)
    /\ SetTask(k, [tasks[k] EXCEPT !.pc = "ended"])
    /\ afterCycle' = FALSE
    /\ UNCHANGED <<corrVars, watched_slaves, diskVars, logdir, histVars,
                   g_benign_error_last_sent, window, healthVars, parseVars, tailVars, main>>

(* follow_log_file, first run: open(filepath) raises FileNotFoundError,    *)
(* which is logged; the task is done.                                      *)
TailerOpenFails(k) ==
    /\ Running
    /\ tasks[k].pc = "start"
    /\ tasks[k].filepath \notin DOMAIN logdir
    /\ SetTask(k, [tasks[k] EXCEPT !.pc = "ended"])
    /\ afterCycle' = FALSE
    /\ UNCHANGED <<corrVars, watched_slaves, diskVars, logdir, dispVars, histVars,
                   healthVars, parseVars, tailVars, main>>

(* follow_log_file: readline or the handling of a line raises an exception *)
(* that is neither FileNotFoundError nor CancelledError; after the         *)
(* critical alert the task is done.                                        *)
TailerFails(k) ==
    /\ Running
    /\ tasks[k].pc = "read"
    /\ SetTask(k, [tasks[k] EXCEPT !.pc = "ended"])
    /\ offset' = Closed({k})
    /\ afterCycle' = FALSE
    /\ UNCHANGED <<corrVars, watched_slaves, diskVars, logdir, dispVars, histVars,
                   healthVars, parseVars, logtext, seen, main>>

InitRotation ==
    /\ InitCommon
    /\ CHANNEL_ID = "channel"
    /\ logdir = InitDir

NextRotation ==
    \/ \E reg \in Registries, pick \in [IdsInDir -> DOMAIN logdir] : MainCycle(reg, pick)
    \/ \E k \in DOMAIN tasks : TailerOpen(k)
    \/ \E k \in DOMAIN tasks : TailerOpenFails(k)
    \/ \E k \in DOMAIN tasks : TailerFails(k)
    \/ \E f \in LogFiles, ct \in Ctimes : DirCreate(f, ct)
    \/ \E f \in LogFiles : DirDelete(f)

SpecRotation == InitRotation /\ [][NextRotation]_vars

(* The id has exactly two files in the directory, created at different     *)
(* times.                                                                  *)
TwoFiles(s) ==
    /\ Cardinality(FilesOf(s)) = 2
    /\ \E f, g \in FilesOf(s) : logdir[f] < logdir[g]

Newer(s) == CHOOSE f \in FilesOf(s) : \A g \in FilesOf(s) \ {f} : logdir[g] < logdir[f]

ActiveIn(ts, k) == ts[k].pc \notin {"ended", "cancelled"}

ActiveTailers(s) == {k \in DOMAIN tasks : k[1] = s /\ ActiveIn(tasks, k)}

(* C9 as stated: right after a cycle, an id with two files of different    *)
(* creation times has exactly one active Tailer, on the newer file.        *)
C9_OneActiveTailerOnNewer ==
    afterCycle =>
        \A s \in SlaveIds :
            TwoFiles(s) =>
                /\ Cardinality(ActiveTailers(s)) = 1
                /\ \A k \in ActiveTailers(s) : tasks[k].filepath = Newer(s)

(* C9 amended: a completed cycle leaves, for an id with two files of       *)
(* different creation times, the newer file recorded with a Tailer on it   *)
(* and no other Tailer of the id active; the recorded Tailer is active     *)
(* unless it was recorded on the newer file before the cycle and had       *)
(* ended, and then the cycle starts no replacement.                        *)
C9_RecordedTailerOnNewer ==
    [][\A reg \in Registries, pick \in [IdsInDir -> DOMAIN logdir] :
          MainCycle(reg, pick) =>
              \A s \in SlaveIds :
                  TwoFiles(s) =>
                      /\ s \in DOMAIN watched_slaves'
                      /\ watched_slaves'[s].filepath = Newer(s)
                      /\ tasks'[watched_slaves'[s].task].filepath = Newer(s)
                      /\ \A k \in DOMAIN tasks' :
                             (k[1] = s /\ ActiveIn(tasks', k)) =>
                                 k = watched_slaves'[s].task
                      /\ \/ ActiveIn(tasks', watched_slaves'[s].task)
                         \/ /\ s \in DOMAIN watched_slaves
                            /\ watched_slaves[s] = watched_slaves'[s]
                            /\ tasks[watched_slaves[s].task].pc = "ended"
    ]_vars

C9_Witness ==
    /\ afterCycle
    /\ \E s \in SlaveIds :
          /\ TwoFiles(s)
          /\ Gen(s) >= 2
          /\ watched_slaves[s].filepath = Newer(s)
          /\ tasks[watched_slaves[s].task].pc = "start"
          /\ \E k \in DOMAIN tasks : k[1] = s /\ tasks[k].pc = "cancelled"

(* C10: a cycle that finds, for every id in the directory, the latest file *)
(* already recorded for that id starts no Tailer and cancels none: the     *)
(* tasks and the record of what is tailed are left as they were.           *)
C10_UnchangedDirectoryIsIdle ==
    [][\A reg \in Registries, pick \in [IdsInDir -> DOMAIN logdir] :
          ( /\ MainCycle(reg, pick)
            /\ \A s \in IdsInDir :
                  /\ s \in DOMAIN watched_slaves
                  /\ watched_slaves[s].filepath = pick[s] )
          => /\ tasks' = tasks
             /\ watched_slaves' = watched_slaves
    ]_vars

C10_Witness ==
    /\ afterCycle
    /\ IdsInDir = SlaveIds
    /\ \A s \in SlaveIds : s \in DOMAIN watched_slaves
    /\ \A k \in DOMAIN tasks : tasks[k].pc # "start"
    /\ \E k \in DOMAIN tasks : tasks[k].pc = "read"

-----------------------------------------------------------------------------
(* Rotation under load: copy_A's log rotates while its Tailer is in the    *)
(* middle of a line.                                                       *)
InitCancel ==
    /\ InitCommon
    /\ CHANNEL_ID = "channel"
    /\ logdir = [f \in {LogFile("copy_A", 1)} |-> 1]

NextCancel ==
    \/ Next
    \/ DirCreate(LogFile("copy_A", 2), 2)

SpecCancel == InitCancel /\ [][NextCancel]_vars

(* C11: a Tailer that the Rotation Manager has cancelled takes no further  *)
(* step (it parses no line and returns from no await); at most one Tailer  *)
(* of an id is active at any time; and every change of the store or of     *)
(* the ledger is a step of a Tailer that is active.                        *)
C11_CancelledTailerIsInert ==
    [][ /\ \A k \in DOMAIN tasks :
               tasks[k].pc = "cancelled" =>
                   (k \in DOMAIN tasks' /\ tasks'[k] = tasks[k])
        /\ \A s \in SlaveIds :
               Cardinality({k \in DOMAIN tasks' : k[1] = s /\ ActiveIn(tasks', k)}) <= 1
        /\ (state_data' # state_data \/ ledger' # ledger) =>
               \E k \in DOMAIN tasks :
                   /\ ActiveIn(tasks, k)
                   /\ k \in DOMAIN tasks'
                   /\ tasks'[k] # tasks[k]
    ]_vars

C11_Witness ==
    \E k, j \in DOMAIN tasks :
        /\ k[1] = j[1]
        /\ tasks[k].pc = "cancelled"
        /\ tasks[k].line.kind = "CLOSE"
        /\ tasks[k].line.ticket \in DOMAIN state_data
        /\ watched_slaves[j[1]].task = j
        /\ tasks[j].pc = "alert"

-----------------------------------------------------------------------------
(* The Health Monitor: source_health_check, from one await to the next.    *)
(* A scan takes time.time() once, walks the registry it found at its       *)
(* start and awaits send_telegram_alert for each alert before it records   *)
(* the new status.                                                         *)

MaxHealthTime == 540   \* seconds the Health Monitor's clock runs for

DISCONNECT_THRESHOLD == 120

ALERT_COOLDOWN == 300

(* source_statuses.get(file_path, {"status": "connected", ...})            *)
CurrentStatusInfo(f) ==
    Get(source_statuses, f, [status |-> "connected", last_alert_time |-> 0])

Stale_Modified(f) == (health.now - srcfiles[f]) > 0

(* time_since_update > DISCONNECT_THRESHOLD, with the scan's own now       *)
Stale(f) == (health.now - srcfiles[f]) > DISCONNECT_THRESHOLD

ReAlertDue_Threshold(f) ==
    (health.now - CurrentStatusInfo(f).last_alert_time) > DISCONNECT_THRESHOLD

(* now - current_status_info.get("last_alert_time", 0) > ALERT_COOLDOWN    *)
ReAlertDue(f) ==
    (health.now - CurrentStatusInfo(f).last_alert_time) > ALERT_COOLDOWN

EntersNotFound_Unseen(f) == f \notin DOMAIN source_statuses

(* file_path not in source_statuses or its status != "file_not_found"      *)
EntersNotFound(f) ==
    \/ f \notin DOMAIN source_statuses
    \/ source_statuses[f].status # "file_not_found"

(* The alert the loop body sends for file f, None when it sends nothing.   *)
AlertKind(f) ==
    IF f \notin DOMAIN srcfiles
    THEN IF EntersNotFound(f) THEN "NotFound" ELSE None
    ELSE IF Stale(f)
         THEN IF CurrentStatusInfo(f).status = "connected" THEN "Disconnected"
              ELSE IF ReAlertDue(f) THEN "StillDisconnected"
              ELSE None
         ELSE IF CurrentStatusInfo(f).status = "disconnected" THEN "Reconnected"
              ELSE None

StatusAfter_Stamped(kind, f) ==
    [status |-> CASE kind = "Disconnected" -> "disconnected"
                  [] kind = "StillDisconnected" -> source_statuses[f].status
                  [] kind = "Reconnected" -> "connected"
                  [] kind = "NotFound" -> "file_not_found",
     last_alert_time |-> health.now]

(* The status recorded once the alert has been awaited.                    *)
StatusAfter(kind, f) ==
    CASE kind = "Disconnected" ->
             [status |-> "disconnected", last_alert_time |-> health.now]
      [] kind = "StillDisconnected" ->
             [source_statuses[f] EXCEPT !.last_alert_time = health.now]
      [] kind = "Reconnected" ->
             [status |-> "connected", last_alert_time |-> 0]
      [] kind = "NotFound" ->
             [status |-> "file_not_found", last_alert_time |-> health.now]

(* removed_files = set(source_statuses.keys()) - checked_files             *)
Purged(checked) ==
    [f \in DOMAIN source_statuses \cap checked |-> source_statuses[f]]

(* asyncio.sleep(60) is over: now = time.time(); an empty registry sends   *)
(* the task back to sleep, otherwise the walk over the registry begins.    *)
ScanBegin ==
    /\ savePc = "idle"
    /\ health.pc = "sleep"
    /\ now >= health.wake
    /\ health' =
          IF source_name_map = EmptyMap
          THEN HealthIdle(now + ScanSleep)
          ELSE [pc |-> "scan", wake |-> 0, now |-> now,
                scanned |-> source_name_map, todo |-> DOMAIN source_name_map,
                checked |-> {}, file |-> None, kind |-> None]
    /\ UNCHANGED <<corrVars, taskVars, diskVars, logdir, dispVars, histVars,
                   afterCycle, source_statuses, srcfiles, alerted, parseVars, tailVars, main>>

(* The loop body for the next file of the registry, up to the await of     *)
(* send_telegram_alert, or to its end when no alert is due.                *)
CheckFile(f) ==
    /\ savePc = "idle"
    /\ health.pc = "scan"
    /\ f \in health.todo
    /\ health' = [health EXCEPT
            !.todo = @ \ {f},
            !.checked = @ \cup {f},
            !.pc = IF AlertKind(f) = None THEN "scan" ELSE "alert",
            !.file = IF AlertKind(f) = None THEN None ELSE f,
            !.kind = AlertKind(f)]
    /\ alerted' = IF AlertKind(f) = None THEN alerted
                  ELSE Put(alerted, f, [kind |-> AlertKind(f), at |-> health.now])
    /\ UNCHANGED <<corrVars, taskVars, diskVars, logdir, dispVars, histVars,
                   afterCycle, source_statuses, srcfiles, parseVars, tailVars, main>>

(* send_telegram_alert has returned: the file's status is recorded.        *)
AlertSent ==
    /\ savePc = "idle"
    /\ health.pc = "alert"
    /\ source_statuses' =
          Put(source_statuses, health.file, StatusAfter(health.kind, health.file))
    /\ health' = [health EXCEPT !.pc = "scan", !.file = None, !.kind = None]
    /\ UNCHANGED <<corrVars, taskVars, diskVars, logdir, dispVars, histVars,
                   afterCycle, srcfiles, alerted, parseVars, tailVars, main>>

(* The walk is over: the files not checked leave the status map, and the   *)
(* task sleeps for a minute.                                               *)
ScanEnd ==
    /\ savePc = "idle"
    /\ health.pc = "scan"
    /\ health.todo = {}
    /\ source_statuses' = Purged(health.checked)
    /\ health' = HealthIdle(now + ScanSleep)
    /\ UNCHANGED <<corrVars, taskVars, diskVars, logdir, dispVars, histVars,
                   afterCycle, srcfiles, alerted, parseVars, tailVars, main>>

(* The source EA writes to its file (creating it when it is missing).      *)
TouchSource(f) ==
    /\ f \in SourceFiles
    /\ Get(srcfiles, f, 0) # now
    /\ srcfiles' = Put(srcfiles, f, now)
    /\ UNCHANGED <<corrVars, taskVars, diskVars, logdir, dispVars, histVars,
                   afterCycle, source_statuses, health, alerted, parseVars, tailVars, main>>

(* The source file is removed.                                             *)
DeleteSource(f) ==
    /\ f \in DOMAIN srcfiles
    /\ srcfiles' = Del(srcfiles, f)
    /\ UNCHANGED <<corrVars, taskVars, diskVars, logdir, dispVars, histVars,
                   afterCycle, source_statuses, health, alerted, parseVars, tailVars, main>>

(* A minute passes.                                                        *)
HealthTick ==
    /\ now + ScanSleep <= StartTime + MaxHealthTime
    /\ now' = now + ScanSleep
    /\ UNCHANGED <<corrVars, taskVars, diskVars, logdir, histVars, afterCycle,
                   healthVars, CHANNEL_ID, last_message_hash, last_message_time,
                   g_benign_error_last_sent, calls, netlog, lastDelivered,
                   prevCall, window, parseVars, tailVars, main>>

(* The Health Monitor beside the Rotation Manager, which reloads the       *)
(* registry in every cycle; the log directory holds no copier log.         *)
InitHealth ==
    /\ InitCommon
    /\ CHANNEL_ID = "channel"
    /\ logdir = EmptyMap

NextHealth ==
    \/ \E reg \in Registries, pick \in [IdsInDir -> DOMAIN logdir] : MainCycle(reg, pick)
    \/ ScanBegin
    \/ \E f \in RegistryFiles : CheckFile(f)
    \/ AlertSent
    \/ ScanEnd
    \/ \E f \in SourceFiles : TouchSource(f)
    \/ \E f \in SourceFiles : DeleteSource(f)
    \/ HealthTick

SpecHealth == InitHealth /\ [][NextHealth]_vars

(* The scan step that handles file f: f leaves the files still to check.   *)
Checks(f) ==
    /\ health.pc = "scan"
    /\ f \in health.todo
    /\ f \notin health'.todo

StatusOf(m, f) == IF f \in DOMAIN m THEN m[f].status ELSE "connected"

(* C12: a 'Source Disconnected' alert is sent only for a file that exists, *)
(* has not been modified for more than 120 s and is held connected; the    *)
(* scan that sends it, and no other step, moves the source to              *)
(* disconnected, with the scan's time as last alert time; a later scan     *)
(* that finds the source disconnected and still stale sends nothing and    *)
(* changes nothing as long as no more than 300 s have passed since the     *)
(* last alert time.                                                        *)
C12_DisconnectedOnce ==
    [][ \A f \in RegistryFiles :
          /\ (Checks(f) /\ health'.kind = "Disconnected") =>
                 /\ f \in DOMAIN srcfiles
                 /\ health.now - srcfiles[f] > 120
                 /\ StatusOf(source_statuses, f) = "connected"
          /\ (/\ Checks(f)
              /\ f \in DOMAIN srcfiles
              /\ health.now - srcfiles[f] > 120
              /\ StatusOf(source_statuses, f) = "connected") =>
                 (health'.pc = "alert" /\ health'.kind = "Disconnected")
          /\ (/\ StatusOf(source_statuses', f) = "disconnected"
              /\ StatusOf(source_statuses, f) # "disconnected") =>
                 /\ health.pc = "alert"
                 /\ health.kind = "Disconnected"
                 /\ health.file = f
                 /\ source_statuses'[f].last_alert_time = health.now
          /\ (health.pc = "alert" /\ health.kind = "Disconnected"
                 /\ health.file = f /\ health'.pc # "alert") =>
                 StatusOf(source_statuses', f) = "disconnected"
          /\ (/\ Checks(f)
              /\ f \in DOMAIN srcfiles
              /\ health.now - srcfiles[f] > 120
              /\ StatusOf(source_statuses, f) = "disconnected"
              /\ health.now - source_statuses[f].last_alert_time <= 300) =>
                 /\ health'.pc = "scan"
                 /\ health'.kind = None
                 /\ source_statuses' = source_statuses
    ]_vars

C12_Witness ==
    \E f \in SourceFiles :
        /\ health.pc = "scan"
        /\ f \in health.checked
        /\ f \in DOMAIN srcfiles
        /\ health.now - srcfiles[f] > 120
        /\ f \in DOMAIN source_statuses
        /\ source_statuses[f].status = "disconnected"
        /\ source_statuses[f].last_alert_time < health.now
        /\ health.now - source_statuses[f].last_alert_time <= 300

(* C13: for a source held disconnected, a 'Source Still Disconnected'      *)
(* alert is sent by a scan exactly when the file is still stale and more   *)
(* than 300 s lie between the scan's time and the last alert time, which   *)
(* is the scan time of the alert before; the scan then records its own     *)
(* time as last alert time and the status stays disconnected.              *)
C13_ReAlertAfterCooldown ==
    [][ \A f \in RegistryFiles :
          /\ (/\ Checks(f)
              /\ health'.kind = "StillDisconnected"
              /\ StatusOf(source_statuses, f) = "disconnected") =>
                 /\ f \in DOMAIN srcfiles
                 /\ health.now - srcfiles[f] > 120
                 /\ health.now - source_statuses[f].last_alert_time > 300
                 /\ f \in DOMAIN alerted
                 /\ alerted[f].at = source_statuses[f].last_alert_time
                 /\ alerted'[f].at - alerted[f].at > 300
          /\ (/\ Checks(f)
              /\ f \in DOMAIN srcfiles
              /\ health.now - srcfiles[f] > 120
              /\ StatusOf(source_statuses, f) = "disconnected"
              /\ health.now - source_statuses[f].last_alert_time > 300) =>
                 (health'.pc = "alert" /\ health'.kind = "StillDisconnected")
          /\ (/\ health.pc = "alert"
              /\ health.kind = "StillDisconnected"
              /\ health.file = f
              /\ health'.pc # "alert"
              /\ StatusOf(source_statuses, f) = "disconnected") =>
                 source_statuses'[f] =
                     [status |-> "disconnected", last_alert_time |-> health.now]
    ]_vars

C13_Witness ==
    \E f \in RegistryFiles :
        /\ health.pc = "scan"
        /\ f \in health.checked
        /\ f \in DOMAIN alerted
        /\ alerted[f].kind = "StillDisconnected"
        /\ f \in DOMAIN source_statuses
        /\ source_statuses[f] =
               [status |-> "disconnected", last_alert_time |-> health.now]

(* C14: a scan that finds a source held disconnected whose file was        *)
(* modified no more than 120 s before the scan's time sends a 'Source      *)
(* Reconnected' alert and then records connected with last alert time 0;   *)
(* for a source held connected whose file is fresh it sends nothing and    *)
(* changes nothing.                                                        *)
C14_ReconnectResets ==
    [][ \A f \in RegistryFiles :
          /\ (/\ Checks(f)
              /\ f \in DOMAIN srcfiles
              /\ health.now - srcfiles[f] <= 120
              /\ StatusOf(source_statuses, f) = "disconnected") =>
                 /\ health'.pc = "alert"
                 /\ health'.kind = "Reconnected"
                 /\ health'.file = f
          /\ (/\ health.pc = "alert"
              /\ health.kind = "Reconnected"
              /\ health.file = f
              /\ health'.pc # "alert") =>
                 source_statuses'[f] =
                     [status |-> "connected", last_alert_time |-> 0]
          /\ (/\ Checks(f)
              /\ f \in DOMAIN srcfiles
              /\ health.now - srcfiles[f] <= 120
              /\ StatusOf(source_statuses, f) = "connected") =>
                 /\ health'.pc = "scan"
                 /\ health'.kind = None
                 /\ source_statuses' = source_statuses
                 /\ alerted' = alerted
    ]_vars

C14_Witness ==
    \E f \in RegistryFiles :
        /\ health.pc = "scan"
        /\ f \in health.checked
        /\ f \in DOMAIN alerted
        /\ alerted[f] = [kind |-> "Reconnected", at |-> health.now]
        /\ f \in DOMAIN source_statuses
        /\ source_statuses[f] = [status |-> "connected", last_alert_time |-> 0]

(* C15: a scan that finds the file of a source missing sends a 'Source     *)
(* File Not Found' alert exactly when the source is not yet held           *)
(* file_not_found, and then records file_not_found with its own time; a    *)
(* later scan that finds the file still missing sends nothing and leaves   *)
(* status and last alert time as they are.                                 *)
C15_NotFoundOnEntryOnly ==
    [][ \A f \in RegistryFiles :
          /\ (/\ Checks(f)
              /\ f \notin DOMAIN srcfiles
              /\ StatusOf(source_statuses, f) # "file_not_found") =>
                 /\ health'.pc = "alert"
                 /\ health'.kind = "NotFound"
                 /\ health'.file = f
          /\ (Checks(f) /\ health'.kind = "NotFound") =>
                 /\ f \notin DOMAIN srcfiles
                 /\ StatusOf(source_statuses, f) # "file_not_found"
          /\ (/\ health.pc = "alert"
              /\ health.kind = "NotFound"
              /\ health.file = f
              /\ health'.pc # "alert") =>
                 source_statuses'[f] =
                     [status |-> "file_not_found", last_alert_time |-> health.now]
          /\ (/\ Checks(f)
              /\ f \notin DOMAIN srcfiles
              /\ StatusOf(source_statuses, f) = "file_not_found") =>
                 /\ health'.pc = "scan"
                 /\ health'.kind = None
                 /\ source_statuses' = source_statuses
                 /\ alerted' = alerted
    ]_vars

C15_Witness ==
    \E f \in SourceFiles :
        /\ health.pc = "scan"
        /\ f \in health.checked
        /\ f \notin DOMAIN srcfiles
        /\ f \in DOMAIN source_statuses
        /\ source_statuses[f].status = "file_not_found"
        /\ source_statuses[f].last_alert_time < health.now
        /\ f \in DOMAIN alerted
        /\ alerted[f] =
               [kind |-> "NotFound", at |-> source_statuses[f].last_alert_time]

(* C16: when a cycle of the Health Monitor ends (the task goes to sleep,   *)
(* after a walk or after finding the registry empty), every key of the     *)
(* status map is a file of the current registry.                           *)
C16_StatusKeysRegistered ==
    [][ ( \/ (health.pc = "scan" /\ health'.pc = "sleep")
          \/ (health.pc = "sleep" /\ health'.pc = "sleep"
                 /\ health'.wake # health.wake) )
        => DOMAIN source_statuses' \subseteq DOMAIN source_name_map' ]_vars

-----------------------------------------------------------------------------
(* The Tailer on raw lines.  The log of copy_A gets one more line: a line  *)
(* of the expert's format for one of the markers, or what at most MaxEdits *)
(* changes of one field make of it (a field dropped, a field added, a      *)
(* field replaced).  The Tailer reads it, parses it and hands on what the  *)
(* parser returned.                                                        *)
MaxEdits == 1          \* changed fields in the line

Amount == <<"5001", ".10">>

Percent == <<"3", ".10">>

Loss == <<"-", "5", ".06">>

WellFormedLines ==
    { [marker |-> "TRADE_OPEN",
       fields |-> <<<<"copy_A">>, <<"EURUSD">>, <<"0", ".10">>, <<"5", ".06">>,
                    <<"178662307">>, <<"SourceA.log">>, <<"5001">>>>],
      [marker |-> "TRADE_CLOSE",
       fields |-> <<<<"copy_A">>, <<"EURUSD">>, <<"178662307">>, Loss,
                    <<"SourceA.log">>, <<"5001">>>>],
      [marker |-> "TRADE_CLOSE",
       fields |-> <<<<"copy_A">>, <<"EURUSD">>, <<"178662307">>, <<"StopOut">>,
                    <<"SourceA.log">>, <<"5001", " ", "(", "Margin", ")">>>>],
      [marker |-> "DD_ALERT",
       fields |-> <<<<"copy_A">>, Percent, Amount, <<"5001">>, Amount>>],
      [marker |-> "DD_STOP",
       fields |-> <<<<"copy_A">>, Percent, <<"5">>, Amount, <<"5001">>, Amount>>],
      [marker |-> "DD_RESET", fields |-> <<<<"copy_A">>>>],
      [marker |-> "LIMIT_MAX_LOT",
       fields |-> <<<<"copy_A">>, <<"SourceA.log">>, <<"0", ".10">>, <<"0", ".06">>>>],
      [marker |-> "LIMIT_MAX_TRADES",
       fields |-> <<<<"copy_A">>, <<"SourceA.log">>, <<"3">>, <<"3">>>>],
      [marker |-> "LIMIT_SOURCE_DD",
       fields |-> <<<<"copy_A">>, <<"SourceA.log">>, Loss, Amount, <<"3">>>>] }

(* What a changed field holds: nothing, a word, a decimal, a whole number, *)
(* a whole number followed by a parenthetical.                             *)
Replacements ==
    { <<>>, <<"StopOut">>, <<"0", ".10">>, <<"3">>,
      <<"5001", " ", "(", "Margin", ")">> }

OneEdit(l) ==
    LET fs == l.fields
    IN  { [l EXCEPT !.fields = [fs EXCEPT ![i] = t]] :
              i \in 1..Len(fs), t \in Replacements }
        \cup { [l EXCEPT !.fields = SubSeq(fs, 1, i - 1) \o SubSeq(fs, i + 1, Len(fs))] :
              i \in 1..Len(fs) }
        \cup { [l EXCEPT !.fields = Append(fs, t)] : t \in Replacements }

RECURSIVE Edited(_, _)
Edited(S, n) ==
    IF n = 0 THEN S ELSE Edited(S \cup UNION {OneEdit(l) : l \in S}, n - 1)

InputLines == Edited(WellFormedLines, MaxEdits)

Classified_AllTrades(l, r) ==
    [kind |-> "CLOSE", ticket |-> "178662307", source_file |-> "SourceA.log",
     profit |-> 0]

(* The line as the Tailer's later steps see it.                            *)
Classified(l, r) ==
    IF r.title = "TradeOpened"
    THEN LET parts == Stripped(open_pattern(l))
         IN  [kind |-> "OPEN", ticket |-> Text(parts[5]),
              source_file |-> Text(parts[6]), profit |-> 0]
    ELSE IF r.title = "TradeClosed"
    THEN [kind |-> "CLOSE", ticket |-> r.trade.source_ticket,
          source_file |-> r.trade.source_file, profit |-> r.trade.profit]
    ELSE InfoLine

(* follow_log_file from readline to its next await: the line is parsed (a  *)
(* TRADE_OPEN line writes its entry of the store), and a message is given  *)
(* to send_telegram_alert, which runs up to its first send; with no        *)
(* message there is no trade data either and the Tailer reads on.          *)
ParseLine(k) ==
    /\ Running
    /\ tasks[k].pc = "read"
    /\ logline = NoLogLine
    /\ calls[Sender].pc = "idle"
    /\ \E l \in InputLines :
          LET r == parse_and_format_log_line(l)
              c == Classified(l, r)
          IN  /\ logline' = l
              /\ parsed' = r
              /\ IF c.kind = "OPEN"
                 THEN Upsert(c.ticket, DisplayName(c.source_file))
                 ELSE UNCHANGED <<state_data, state_changed>>
              /\ IF r.message # None
                 THEN /\ BeginSend(Sender, r.message, None)
                      /\ SetTask(k, [tasks[k] EXCEPT !.pc = "alert", !.line = c])
                 ELSE UNCHANGED <<tasks, now, CHANNEL_ID, last_message_hash,
                                  last_message_time, calls, netlog, lastDelivered,
                                  prevCall>>
    /\ UNCHANGED <<source_name_map, ledger, watched_slaves, diskVars, logdir,
                   afterCycle, histVars, g_benign_error_last_sent, window,
                   healthVars, tailVars, main>>

(* One Tailer of copy_A, the dispatcher delivering or failing, the ledger  *)
(* accepting or refusing the row.                                          *)
InitParse ==
    /\ InitCommon
    /\ CHANNEL_ID = "channel"
    /\ logdir = [f \in {LogFile("copy_A", 1)} |-> 1]

NextParse ==
    \/ \E reg \in Registries, pick \in [IdsInDir -> DOMAIN logdir] : MainCycle(reg, pick)
    \/ \E k \in DOMAIN tasks : TailerOpen(k)
    \/ \E k \in DOMAIN tasks : ParseLine(k)
    \/ SendOk(Sender)
    \/ SendOtherError(Sender)
    \/ \E k \in DOMAIN tasks : calls[Sender].pc = "idle" /\ AlertDone(k)
    \/ \E k \in DOMAIN tasks : calls[Sender].pc = "idle" /\ SaveTradeBegin(k)
    \/ \E k \in DOMAIN tasks : SaveTradeOk(k)
    \/ \E k \in DOMAIN tasks : SaveTradeFails(k)

SpecParse == InitParse /\ [][NextParse]_vars

-----------------------------------------------------------------------------
(* The number of fields of each event, and the fields that hold numbers.   *)
ClaimMarkers == Markers \ {"DD_RESET"}

Arity(marker) ==
    CASE marker = "TRADE_OPEN" -> 7
      [] marker = "TRADE_CLOSE" -> 6
      [] marker = "DD_ALERT" -> 5
      [] marker = "DD_STOP" -> 6
      [] marker = "LIMIT_MAX_LOT" -> 4
      [] marker = "LIMIT_MAX_TRADES" -> 4
      [] marker = "LIMIT_SOURCE_DD" -> 5
      [] OTHER -> 1

WrongArity(l) == Len(l.fields) # Arity(l.marker)

WrongType(l) ==
    LET fs == l.fields
    IN  /\ ~WrongArity(l)
        /\ CASE l.marker = "TRADE_OPEN" -> ~AllDigits(fs[7])
             [] l.marker = "TRADE_CLOSE" -> LeadDigits(fs[6]) = <<>>
             [] l.marker = "DD_ALERT" -> \E i \in 2..5 : ~IsFloat(fs[i])
             [] l.marker = "DD_STOP" -> \E i \in 2..6 : ~IsFloat(fs[i])
             [] l.marker = "LIMIT_MAX_LOT" -> \E i \in 3..4 : ~IsFloat(fs[i])
             [] l.marker = "LIMIT_MAX_TRADES" -> \E i \in 3..4 : ~AllDigits(fs[i])
             [] l.marker = "LIMIT_SOURCE_DD" ->
                    (\E i \in 3..4 : ~IsFloat(fs[i])) \/ ~AllDigits(fs[5])
             [] OTHER -> FALSE

(* C17: a line with one of the seven markers that has the wrong number of  *)
(* fields, or a field that is not the number it has to be, is parsed to a  *)
(* ParseError message that echoes the line, and that message is what the   *)
(* Tailer gives to the dispatcher: the line is never left without message. *)
C17_MalformedLineIsParseError ==
    ( /\ parsed # NotParsed
      /\ logline.marker \in ClaimMarkers
      /\ (WrongArity(logline) \/ WrongType(logline)) )
    => /\ parsed.title = "ParseError"
       /\ parsed.message = "Parse Error in Log: " \o LineText(logline)
       /\ netlog[Sender].msg = parsed.message

-----------------------------------------------------------------------------
(* A TRADE_CLOSE line with six well-formed fields whose fourth field is a  *)
(* reason and not a number: five non-empty fields, then the account        *)
(* number, alone or followed by a parenthetical.                           *)
Parenthetical(t) ==
    LET s == Strip(t, Blanks)
    IN  Len(s) >= 3 /\ s[1] = "(" /\ s[Len(s)] = ")"
        /\ \A i \in 2..(Len(s) - 1) : s[i] \notin Brackets

Inside(t) ==
    LET s == Strip(t, Blanks) IN Text(SubSeq(s, 2, Len(s) - 1))

CloseWithReason(l) ==
    /\ l.marker = "TRADE_CLOSE"
    /\ Len(l.fields) = 6
    /\ \A i \in 1..5 : NonEmpty(l.fields[i])
    /\ ~IsFloat(l.fields[4])
    /\ LeadDigits(l.fields[6]) # <<>>
    /\ Tail(l.fields[6]) = <<>> \/ Parenthetical(Tail(l.fields[6]))

-----------------------------------------------------------------------------
(* The Ledger Writer failing.  Besides the failure that leaves no row      *)
(* (SaveTradeFails), the INSERT can have gone through when commit() or     *)
(* cursor.close() raises: the row is in the table (at once, or with the    *)
(* next commit on the shared connection), the failure is logged, and the   *)
(* entry written by SaveTradeBegin stays.                                  *)
SaveTradeFailsLate(k) ==
    /\ Running
    /\ tasks[k].pc = "db"
    /\ ledger' = Append(ledger, LedgerRow(k))
    /\ SetTask(k, Reading(tasks[k]))
    /\ UNCHANGED <<source_name_map, state_data, state_changed, watched_slaves,
                   diskVars, logdir, afterCycle, dispVars, histVars, healthVars,
                   parseVars, tailVars, main>>

InitLedger == Init

NextLedger ==
    \/ Next
    \/ \E k \in DOMAIN tasks : SaveTradeFailsLate(k)

SpecLedger == InitLedger /\ [][NextLedger]_vars

(* Tailers that hold a TRADE_CLOSE line whose row is still to be written.  *)
ClosesInHand(ts) ==
    {k \in DOMAIN ts : ts[k].pc \in {"alert", "db"} /\ ts[k].line.kind = "CLOSE"}

(* C19: a Tailer waiting for the ledger leaves that wait for readline      *)
(* (or stays cancelled by a rotation), never ended, with the line it held  *)
(* forgotten, so the row is not tried again; the ledger grows by one row   *)
(* at a time, only in the step that ends such a wait; a Tailer comes to    *)
(* the ledger only with a TRADE_CLOSE line it has just read; and the rows  *)
(* written plus the TRADE_CLOSE lines in hand never exceed the lines read. *)
C19_FailedAppendIsSkipped ==
    [][ /\ \A k \in DOMAIN tasks :
              (tasks[k].pc = "db" /\ tasks'[k].pc # "db") =>
                  \/ tasks'[k].pc = "read" /\ tasks'[k].line = NoLine
                  \/ tasks'[k].pc = "cancelled"
        /\ ledger' # ledger =>
              \E k \in DOMAIN tasks :
                  /\ tasks[k].pc = "db"
                  /\ tasks'[k].pc = "read"
                  /\ ledger' = Append(ledger, LedgerRow(k))
        /\ \A k \in DOMAIN tasks :
              (tasks[k].pc # "db" /\ tasks'[k].pc = "db") =>
                  /\ tasks[k].pc = "alert"
                  /\ tasks[k].line.kind = "CLOSE"
                  /\ tasks'[k].line = tasks[k].line
        /\ \A k \in DOMAIN tasks :
              (tasks[k].pc # "alert" /\ tasks'[k].pc = "alert"
                   /\ tasks'[k].line.kind = "CLOSE") =>
                  tasks[k].pc = "read" /\ linesRead' = linesRead + 1
        /\ Len(ledger') + Cardinality(ClosesInHand(tasks')) <= linesRead'
      ]_vars

(* Two lines were read, neither a TRADE_OPEN, by the only Tailer that has  *)
(* run; no row was written for the first, and the second is at the ledger. *)
C19_Witness ==
    \E k \in DOMAIN tasks :
        /\ tasks[k].pc = "db"
        /\ linesRead = 2
        /\ ledger = <<>>
        /\ \A t \in Tickets : openName[t] = None
        /\ \A j \in DOMAIN tasks \ {k} : tasks[j].pc = "start"

-----------------------------------------------------------------------------
(* A Tailer ending on an exception.  open() (of a file that is there),     *)
(* readline or the handling of a line raises something that is neither     *)
(* FileNotFoundError nor CancelledError: the handler logs it and awaits    *)
(* send_telegram_alert with the critical message, which runs up to its     *)
(* first send.                                                             *)
TailerRaises(k, e) ==
    /\ Running
    /\ tasks[k].pc \in {"start", "read", "alert"}
    /\ tasks[k].pc = "start" => tasks[k].filepath \in DOMAIN logdir
    /\ e \in Errors
    /\ calls[TaskName(k)].pc = "idle"
    /\ BeginSend(TaskName(k), WatcherError(k, e), None)
    /\ SetTask(k, [Reading(tasks[k]) EXCEPT !.pc = "failing"])
    /\ offset' = Closed({k})
    /\ afterCycle' = FALSE
    /\ UNCHANGED <<corrVars, watched_slaves, diskVars, logdir, histVars,
                   g_benign_error_last_sent, window, healthVars, parseVars,
                   logtext, seen, main>>

(* send_telegram_alert has returned to the handler: the task is done.      *)
TailerAlerted(k) ==
    /\ Running
    /\ tasks[k].pc = "failing"
    /\ calls[TaskName(k)].pc = "idle"
    /\ SetTask(k, [tasks[k] EXCEPT !.pc = "ended"])
    /\ UNCHANGED <<corrVars, watched_slaves, diskVars, logdir, afterCycle, dispVars,
                   histVars, healthVars, parseVars, tailVars, main>>

(* Two Tailers, the files of the directory being deleted under them, the   *)
(* dispatcher delivering or failing, and the Health Monitor, with nothing  *)
(* to scan, as the background task that runs beside them for a minute.     *)
InitFailure ==
    /\ InitCommon
    /\ CHANNEL_ID = "channel"
    /\ logdir = InitDir

NextFailure ==
    \/ \E pick \in [IdsInDir -> DOMAIN logdir] : MainCycle(EmptyMap, pick)
    \/ \E k \in DOMAIN tasks : TailerOpen(k)
    \/ \E k \in DOMAIN tasks : TailerOpenFails(k)
    \/ \E k \in DOMAIN tasks : ParseInfo(k)
    \/ \E k \in DOMAIN tasks : AlertDone(k)
    \/ \E k \in DOMAIN tasks, e \in Errors : TailerRaises(k, e)
    \/ \E k \in DOMAIN tasks : TailerAlerted(k)
    \/ \E c \in Callers : SendOk(c)
    \/ \E c \in Callers : SendOtherError(c)
    \/ \E f \in DOMAIN logdir : DirDelete(f)
    \/ now < StartTime + ScanSleep /\ HealthTick
    \/ ScanBegin

SpecFailure == InitFailure /\ [][NextFailure]_vars

(* The tasks that have taken a step of their own since they were created.  *)
Ends(k) == tasks[k].pc # "ended" /\ tasks'[k].pc = "ended"

Fails(k) == tasks[k].pc # "failing" /\ tasks'[k].pc = "failing"

(* C20: a Tailer ends only from open() on a missing file, and then no      *)
(* call of the dispatcher begins or changes, or after the one call it made *)
(* when it failed; that call carries the critical message with the task's  *)
(* name and the file's name, and no other call begins for the task before  *)
(* it is done; and the step in which a Tailer fails or ends changes no     *)
(* other Tailer, nor the Rotation Manager's table, the state saver or the  *)
(* Health Monitor.                                                         *)
C20_TailerEndsAlone ==
    [][ \A k \in DOMAIN tasks :
          LET c == TaskName(k)
          IN  /\ Ends(k) =>
                    \/ /\ tasks[k].pc = "start"
                       /\ tasks[k].filepath \notin DOMAIN logdir
                       /\ UNCHANGED <<calls, netlog, prevCall, last_message_hash>>
                    \/ /\ tasks[k].pc = "failing"
                       /\ calls[c].pc = "idle"
                       /\ UNCHANGED <<calls, netlog, prevCall>>
              /\ Fails(k) =>
                    /\ calls[c].pc = "idle"
                    /\ netlog'[c].start = now
                    /\ \E e \in Errors :
                          netlog'[c].msg =
                              "Critical Watcher Error: Task watcher_" \o k[1]
                              \o " failed while watching TradeCopier_" \o k[1]
                              \o "_" \o ToString(tasks[k].filepath.date)
                              \o ".log Error: " \o e
              /\ tasks[k].pc = "failing" =>
                    /\ tasks'[k].pc \in {"failing", "ended"}
                    /\ netlog'[c].msg = netlog[c].msg
                    /\ netlog'[c].start = netlog[c].start
                    /\ netlog'[c].primary = netlog[c].primary
              /\ (Ends(k) \/ Fails(k)) =>
                    /\ \A j \in DOMAIN tasks \ {k} : tasks'[j] = tasks[j]
                    /\ UNCHANGED <<watched_slaves, savePc, health, corrVars>>
      ]_vars

(* One Tailer has ended silently and the other after its alert was         *)
(* delivered, or the other is still reading.                               *)
C20_Witness ==
    \E k, j \in DOMAIN tasks :
        /\ k # j
        /\ tasks[k].pc = "ended"
        /\ netlog[TaskName(k)] = NoLog
        /\ tasks[j].pc = "ended"
        /\ netlog[TaskName(j)].result = "sent"
        /\ netlog[TaskName(j)].primary = 1


-----------------------------------------------------------------------------
(* The while loop of main with its clock: a pass runs when the sleep of    *)
(* the pass before is over, and a pass may raise.                          *)
MaxMainTime == 130     \* seconds the main loop's clock runs for
MaxCritical == 2       \* passes of the main loop that raise

CycleSleep == 60

MainSteps == {20}

(* try: the pass; await asyncio.sleep(60)                                  *)
TimedCycle(reg, pick) ==
    /\ main.pc = "loop"
    /\ now >= main.wake
    /\ CycleBody(reg, pick)
    /\ main' = [main EXCEPT !.wake = now + CycleSleep]

CycleFails_Exits(reg, pick, done, bad) ==
    /\ main.pc = "loop"
    /\ now >= main.wake
    /\ main.critical < MaxCritical
    /\ bad \in IdsInDir
    /\ done \subseteq IdsInDir \ {bad}
    /\ CyclePart(reg, pick, done)
    /\ afterCycle' = FALSE
    /\ main' = [main EXCEPT !.pc = "exited", !.critical = @ + 1]

(* A pass raises when the for loop is at the id `bad` (os.path.getctime    *)
(* on a file that is gone, say), the ids `done` being handled already:     *)
(* except Exception: logger.critical(...); await asyncio.sleep(60).        *)
CycleFails(reg, pick, done, bad) ==
    /\ main.pc = "loop"
    /\ now >= main.wake
    /\ main.critical < MaxCritical
    /\ bad \in IdsInDir
    /\ done \subseteq IdsInDir \ {bad}
    /\ CyclePart(reg, pick, done)
    /\ afterCycle' = FALSE
    /\ main' = [main EXCEPT !.wake = now + CycleSleep, !.critical = @ + 1]

(* Time passes.                                                            *)
MainSleep(d) ==
    /\ now + d <= StartTime + MaxMainTime
    /\ now' = now + d
    /\ UNCHANGED <<corrVars, taskVars, diskVars, logdir, afterCycle, histVars,
                   CHANNEL_ID, last_message_hash, last_message_time,
                   g_benign_error_last_sent, calls, netlog, lastDelivered,
                   prevCall, window, healthVars, parseVars, tailVars, main>>

InitMain ==
    /\ InitCommon
    /\ CHANNEL_ID = "channel"
    /\ logdir = InitDir

NextMain ==
    \/ \E reg \in {EmptyMap}, pick \in [IdsInDir -> DOMAIN logdir] : TimedCycle(reg, pick)
    \/ \E reg \in {EmptyMap}, pick \in [IdsInDir -> DOMAIN logdir],
          bad \in SlaveIds, done \in SUBSET SlaveIds : CycleFails(reg, pick, done, bad)
    \/ \E d \in MainSteps : MainSleep(d)
    \/ \E k \in DOMAIN tasks : TailerOpen(k)
    \/ \E k \in DOMAIN tasks : ParseInfo(k)
    \/ \E k \in DOMAIN tasks : AlertDone(k)
    \/ \E f \in LogFiles, ct \in Ctimes : DirCreate(f, ct)

SpecMain == InitMain /\ [][NextMain]_vars

(* The Tailer the Rotation Manager's table holds for an id.                *)
Watched(ws, k) == k[1] \in DOMAIN ws /\ ws[k[1]].task = k

(* C21: an exception inside a pass of the Rotation Manager is caught.  The *)
(* loop is never left; the pass that raised (it logged one more critical   *)
(* error) changes no Tailer except those it had replaced for a newer file  *)
(* before it raised, every Tailer the table still holds being as it was;   *)
(* and after any pass, raised or not, the next pass is due 60 s later and  *)
(* none begins before.                                                     *)
C21_CycleExceptionIsCaught ==
    [][ /\ main'.pc = "loop"
        /\ main'.critical # main.critical =>
              /\ \A k \in DOMAIN tasks :
                    /\ k \in DOMAIN tasks'
                    /\ Watched(watched_slaves', k) => tasks'[k] = tasks[k]
                    /\ tasks'[k] # tasks[k] =>
                          /\ Watched(watched_slaves, k)
                          /\ tasks'[k] = Cancel(tasks[k])
                          /\ watched_slaves'[k[1]].filepath \in LatestSet(k[1])
                          /\ watched_slaves'[k[1]].filepath # watched_slaves[k[1]].filepath
              /\ main'.wake = now + CycleSleep
        /\ (watched_slaves' # watched_slaves \/ main' # main) =>
              /\ now >= main.wake
              /\ main'.wake = now + CycleSleep
      ]_vars

(* A pass has raised while a Tailer was reading, the Tailer reads on, and  *)
(* the pass after it, 60 s later, has started the Tailer of a newer file.  *)
C21_Witness ==
    /\ main.critical > 0
    /\ main.wake > StartTime + CycleSleep
    /\ \E k, j \in DOMAIN tasks :
          /\ k # j
          /\ tasks[k].pc = "cancelled"
          /\ tasks[j].pc = "read"
          /\ tasks[j].filepath = LogFile("copy_A", 2)

-----------------------------------------------------------------------------
(* The [ERROR] texts that hold none of the configured substrings.          *)
NonBenign == {text \in ErrorTexts : KeysIn(text) = {}}

(* C22: an [ERROR] line whose text holds no benign substring is never      *)
(* throttled.  Whatever the benign table holds and however recently the    *)
(* same or another error was alerted, the step in which the Tailer reads   *)
(* the line begins a call of the dispatcher with the Critical Expert Error *)
(* message of that text, and leaves the benign last-sent table (and the    *)
(* windows of the benign keys) as they were.                               *)
C22_NonBenignNeverThrottled ==
    [][ \A text \in NonBenign :
          ErrorLine(Sender, text) =>
              /\ netlog'[Sender].msg = CriticalMessage(text)
              /\ netlog'[Sender].start = now
              /\ netlog'[Sender].result \in {"pending", "dropped"}
              /\ prevCall'.caller = Sender
              /\ prevCall'.msg = CriticalMessage(text)
              /\ g_benign_error_last_sent' = g_benign_error_last_sent
              /\ window' = window
      ]_vars

(* The same critical error was delivered less than a second ago, a benign  *)
(* key is inside its cooldown, and the line was handed to the dispatcher   *)
(* again.                                                                  *)
C22_Witness ==
    /\ netlog[Sender].msg = CriticalMessage("Trade context busy")
    /\ netlog[Sender].start = now
    /\ lastDelivered.msg = CriticalMessage("Trade context busy")
    /\ lastDelivered.start = now
    /\ "No connection" \in DOMAIN g_benign_error_last_sent
    /\ ~ CooldownOver("No connection", Cooldown("No connection"))

-----------------------------------------------------------------------------
(* The start of the daemon on a state file of any content, one Tailer and  *)
(* the flush task running after it, and the process killed and started     *)
(* again on what the flush has written.                                    *)
OtherTicket == "178662308"

StateFiles ==
    {AbsentFile, PartialFile, ValueFile, JsonFile(EmptyMap)} \cup
    { JsonFile([t \in Tickets |-> v]) : v \in {"Alpha Feed", "<number>"} } \cup
    { JsonFile([t \in Tickets \cup {OtherTicket} |->
                   IF t \in Tickets THEN "Alpha Feed" ELSE v]) :
        v \in {"SourceA.log", "<null>"} }

InitLoad ==
    /\ InitMemory
    /\ \E f \in StateFiles : InitState(f)
    /\ CHANNEL_ID = "channel"
    /\ logdir = [f \in {LogFile("copy_A", 1)} |-> 1]

NextLoad ==
    \/ \E pick \in [IdsInDir -> DOMAIN logdir] : MainCycle(EmptyMap, pick)
    \/ \E k \in DOMAIN tasks : TailerOpen(k)
    \/ \E k \in DOMAIN tasks, line \in OpenLines : ParseOpen(k, line)
    \/ \E k \in DOMAIN tasks, line \in CloseLines : ParseClose(k, line)
    \/ \E k \in DOMAIN tasks : AlertDone(k)
    \/ \E k \in DOMAIN tasks : SaveTradeBegin(k)
    \/ \E k \in DOMAIN tasks : SaveTradeOk(k)
    \/ FlushTick
    \/ FlushWrite
    \/ FlushReplace
    \/ Restart

SpecLoad == InitLoad /\ [][NextLoad]_vars

(* main has loaded the state file and has not yet run a pass of its loop.  *)
JustStarted == watched_slaves = EmptyMap /\ tasks = EmptyMap

(* C23: when the daemon has started, the Correlation Store is the content  *)
(* of the state file if that file holds a JSON object all of whose values  *)
(* are strings, and is empty if the file is absent, is not valid JSON, is  *)
(* a JSON document other than an object, or is an object with a value that *)
(* is not a string; in each case main is in its loop and a pass can run.   *)
C23_StoreLoadedOrEmpty ==
    JustStarted =>
        LET f == disk[WATCHER_STATE_PATH]
            flat == /\ f.kind = "json"
                    /\ \A k \in DOMAIN f.doc : f.doc[k] \in Names \cup SourceFiles
            other == \/ f.kind \in {"absent", "partial", "value"}
                     \/ /\ f.kind = "json"
                        /\ \E k \in DOMAIN f.doc : f.doc[k] \in NonStrings
        IN  /\ flat \/ other
            /\ flat => state_data = f.doc
            /\ other => state_data = EmptyMap
            /\ main.pc = "loop"
            /\ ENABLED (\E pick \in [IdsInDir -> DOMAIN logdir] : MainCycle(EmptyMap, pick))

(* The state file holds an object with a string and a null: the store has  *)
(* started empty, also after the process was killed and started again.     *)
C23_Witness ==
    /\ JustStarted
    /\ disk[WATCHER_STATE_PATH].kind = "json"
    /\ OtherTicket \in DOMAIN disk[WATCHER_STATE_PATH].doc
    /\ disk[WATCHER_STATE_PATH].doc[OtherTicket] = "<null>"
    /\ state_data = EmptyMap
    /\ restarts = 1

-----------------------------------------------------------------------------
(* The Tailer k takes the step from pc `from` to pc `to`.                  *)
Moves(k, from, to) ==
    /\ tasks[k].pc = from
    /\ k \in DOMAIN tasks'
    /\ tasks'[k].pc = to

(* C24: a TRADE_CLOSE line whose ticket has no entry in the Correlation    *)
(* Store is handled like any other close.  Its notification is dispatched  *)
(* with the line's raw source-file field as the source name; when the      *)
(* dispatch returns the append begins; and the append ends with exactly    *)
(* one row for the line in the ledger, or with no row when the database    *)
(* refused it.  The Tailer reads on in either case.                        *)
C24_CloseWithoutEntry ==
    [][ \A k \in DOMAIN tasks :
          /\ ( /\ Moves(k, "read", "alert")
               /\ tasks'[k].line.kind = "CLOSE"
               /\ tasks'[k].line.ticket \notin DOMAIN state_data )
                => /\ tasks'[k].msgName = tasks'[k].line.source_file
                   /\ tasks'[k].expName = None
                   /\ UNCHANGED <<state_data, ledger>>
          /\ ( /\ tasks[k].pc = "alert"
               /\ tasks[k].line.kind = "CLOSE"
               /\ k \in DOMAIN tasks'
               /\ tasks'[k].pc \notin {"alert", "cancelled"} )
                => /\ tasks'[k].pc = "db"
                   /\ tasks'[k].line = tasks[k].line
                   /\ ledger' = ledger
          /\ ( /\ tasks[k].pc = "db"
               /\ k \in DOMAIN tasks'
               /\ tasks'[k].pc \notin {"db", "cancelled"} )
                => /\ tasks'[k].pc = "read"
                   /\ \/ ledger' = ledger
                      \/ /\ Len(ledger') = Len(ledger) + 1
                         /\ SubSeq(ledger', 1, Len(ledger)) = ledger
                         /\ ledger'[Len(ledger')].copy_id = tasks[k].slave
                         /\ ledger'[Len(ledger')].profit = tasks[k].line.profit
                         /\ ledger'[Len(ledger')].source_file = tasks[k].line.source_file
      ]_vars

(* The first line any Tailer read was a TRADE_CLOSE: it was announced      *)
(* under the raw file name and its row is in the ledger.                   *)
C24_Witness ==
    /\ linesRead = 1
    /\ Len(ledger) = 1
    /\ ledger[1].source_file \in SourceFiles
    /\ \E k \in DOMAIN tasks : tasks[k].pc = "read"


-----------------------------------------------------------------------------
(* C25: no update of the Correlation Store spans an await.  While a Tailer *)
(* is suspended inside the processing of a line, the store (which every    *)
(* other task reads, and the flush task writes to disk) holds no entry     *)
(* that this processing has added and will delete when it resumes: a       *)
(* Tailer suspended in the ledger append of a TRADE_CLOSE line sees an     *)
(* entry under the line's ticket only if a TRADE_OPEN line put it there.   *)
C25_NoEntryAcrossAwait ==
    \A k \in DOMAIN tasks :
        (tasks[k].pc = "db" /\ tasks[k].line.ticket \in DOMAIN state_data)
            => openName[tasks[k].line.ticket] # None

-----------------------------------------------------------------------------
(* One Tailer and the flush task, no write failing and no kill.  The sleep *)
(* of batch_state_saver always ends and save_watcher_state runs to its end *)
(* without await, so each step of the flush is taken once it can be.       *)
NextFlush ==
    \/ Next
    \/ FlushTick
    \/ FlushWrite
    \/ FlushReplace

FairFlush ==
    /\ WF_vars(FlushTick)
    /\ WF_vars(FlushWrite)
    /\ WF_vars(FlushReplace)

SpecFlush == InitPersist /\ [][NextFlush]_vars /\ FairFlush

(* C26: the files change only inside a flush that began at a tick with the *)
(* dirty flag set; the state file changes only at the end of such a flush, *)
(* to the whole in-memory map as it was at the tick and still is, and the  *)
(* flag is clear after that step; every change of the store sets the flag; *)
(* and whenever the flag is set, later the flag is clear and the state     *)
(* file holds the store as it is then.                                     *)
C26_FlushMirrorsStore ==
    /\ [][ /\ disk' # disk => state_changed
           /\ (savePc = "idle" /\ savePc' # "idle") => state_changed
           /\ disk'[WATCHER_STATE_PATH] # disk[WATCHER_STATE_PATH] =>
                 /\ savePc = "written"
                 /\ savePc' = "idle"
                 /\ newDoc = state_data
                 /\ disk'[WATCHER_STATE_PATH] = JsonFile(state_data)
                 /\ state_data' = state_data
                 /\ ~ state_changed'
           /\ state_data' # state_data => state_changed'
         ]_vars
    /\ state_changed ~>
          (~ state_changed /\ disk[WATCHER_STATE_PATH] = JsonFile(state_data))

(* An entry was flushed, deleted by the close of its trade, and the empty  *)
(* map was flushed after it.                                               *)
C26_Witness ==
    /\ ~ state_changed
    /\ savePc = "idle"
    /\ disk[WATCHER_STATE_PATH] = JsonFile(EmptyMap)
    /\ Len(ledger) = 1
    /\ state_data = EmptyMap

-----------------------------------------------------------------------------
(* C27: whenever the dirty flag is clear and no write is in progress, the  *)
(* state file holds the in-memory Correlation Store (no file standing for  *)
(* the empty store); a flush whose write fails must therefore leave the    *)
(* flag set.                                                               *)
C27_CleanMeansOnDisk ==
    (~ state_changed /\ savePc = "idle") =>
        LoadWatcherState(disk[WATCHER_STATE_PATH]) = state_data

-----------------------------------------------------------------------------
(* Tailers on files that grow.  The copier appends lines to the newest log *)
(* file of copy_A once the daemon watches the id, and starts a new file    *)
(* when the date changes; readline returns the line at the Tailer's        *)
(* position when there is one.                                             *)
MaxFileLines == 3      \* lines written to one log file

(* The copier appends one line to the file it is logging to.               *)
WriteLine(f) ==
    /\ f \in DOMAIN logdir
    /\ f \in LatestSet(SlaveIdOf(f))
    /\ SlaveIdOf(f) \in DOMAIN watched_slaves
    /\ Lines(f) < MaxFileLines
    /\ logtext' = Put(logtext, f, Lines(f) + 1)
    /\ UNCHANGED <<corrVars, taskVars, diskVars, logdir, dispVars, histVars,
                   afterCycle, healthVars, parseVars, offset, seen, main>>

(* line = f.readline() returned a line, and parse_and_format_log_line      *)
(* formatted a message for it (the Tailer awaits the dispatcher) or none   *)
(* (the Tailer reads on).                                                  *)
ReadLine(k, message) ==
    LET n == offset[k].pos + 1
    IN  /\ Running
        /\ tasks[k].pc = "read"
        /\ k \in DOMAIN offset
        /\ n <= Lines(tasks[k].filepath)
        /\ offset' = [offset EXCEPT ![k].pos = n]
        /\ seen' = Append(seen, [task |-> k, file |-> tasks[k].filepath, n |-> n,
                                 had |-> offset[k].had])
        /\ SetTask(k, IF message THEN [tasks[k] EXCEPT !.pc = "alert", !.line = InfoLine]
                      ELSE tasks[k])
        /\ UNCHANGED <<corrVars, watched_slaves, diskVars, logdir, dispVars, histVars,
                       afterCycle, healthVars, parseVars, logtext, main>>

InitTail ==
    /\ InitCommon
    /\ CHANNEL_ID = "channel"
    /\ logdir = [f \in {LogFile("copy_A", 1)} |-> 1]

NextTail ==
    \/ \E pick \in [IdsInDir -> DOMAIN logdir] : MainCycle(EmptyMap, pick)
    \/ \E k \in DOMAIN tasks : TailerOpen(k)
    \/ \E k \in DOMAIN tasks, message \in BOOLEAN : ReadLine(k, message)
    \/ \E k \in DOMAIN tasks : AlertDone(k)
    \/ \E f \in DOMAIN logdir : WriteLine(f)
    \/ DirCreate(LogFile("copy_A", 2), 2)

SpecTail == InitTail /\ [][NextTail]_vars

(* The lines the Tailer k has parsed, in the order it parsed them.         *)
ReadsOf(k) == SelectSeq(seen, LAMBDA e : e.task = k)

(* C28: a Tailer parses no line that was in its file when it opened the    *)
(* file, and parses the lines appended after that in file order, none left *)
(* out: the j-th line it parses is the j-th line written to its file after *)
(* the open.                                                               *)
C28_OnlyAppendedLinesInOrder ==
    \A k \in DOMAIN tasks :
        \A j \in 1..Len(ReadsOf(k)) :
            /\ ReadsOf(k)[j].file = tasks[k].filepath
            /\ ReadsOf(k)[j].n = ReadsOf(k)[j].had + j

(* A Tailer opened a file that held a line, and has parsed the two lines   *)
(* appended after that, not the first.                                     *)
C28_Witness ==
    \E k \in DOMAIN tasks :
        /\ Len(ReadsOf(k)) = 2
        /\ ReadsOf(k)[1].had = 1

-----------------------------------------------------------------------------
(* The Tailer k has its file open and has not ended.                       *)
Tailing(k) == k \in DOMAIN offset /\ tasks[k].pc \in {"read", "alert", "db"}

(* The line n of the file f has been parsed.                               *)
Parsed(f, n) == \E i \in 1..Len(seen) : seen[i].file = f /\ seen[i].n = n

(* C29: no line is lost across a rotation.  Every line appended to the     *)
(* newest log file of an id while the daemon watches the id has been       *)
(* parsed, or is still to come for a Tailer that has the file open and is  *)
(* positioned before it (no other Tailer can return it from readline, now  *)
(* or later); and no line is parsed twice.                                 *)
C29_NoLineLost ==
    /\ \A f \in DOMAIN logtext :
          \A n \in 1..logtext[f] :
              \/ Parsed(f, n)
              \/ \E k \in DOMAIN tasks :
                    Tailing(k) /\ tasks[k].filepath = f /\ offset[k].pos < n
    /\ \A i, j \in 1..Len(seen) :
          (seen[i].file = seen[j].file /\ seen[i].n = seen[j].n) => i = j

-----------------------------------------------------------------------------
(* C30: cancelling a Tailer leaves no half-processed line.  A cancelled     *)
(* Tailer takes no further step, so it holds no TRADE_CLOSE line whose     *)
(* alert it had begun to dispatch and whose ledger append and entry        *)
(* deletion are still to come.                                             *)
C30_NoHalfProcessedLine ==
    \A k \in DOMAIN tasks :
        tasks[k].pc = "cancelled" => tasks[k].line.kind # "CLOSE"

-----------------------------------------------------------------------------
(* The Tailer recorded for the id s has ended.                             *)
RecordedEnded(s) ==
    /\ s \in DOMAIN watched_slaves
    /\ tasks[watched_slaves[s].task].pc = "ended"

(* The step creates a Tailer for the id s.                                 *)
Starts(s) == \E k \in DOMAIN tasks' \ DOMAIN tasks : k[1] = s

(* C31: a Tailer is started for an id whose recorded Tailer has ended only *)
(* by a step that finds a latest file of the id other than the recorded    *)
(* one, and then on that file; every other step leaves the record and the  *)
(* Tailers of the id as they are, the ended Tailer included; and a cycle   *)
(* that finds the recorded file no longer among the latest does start one. *)
C31_EndedTailerNotRestarted ==
    [][\A s \in SlaveIds :
          RecordedEnded(s) =>
              /\ Starts(s) =>
                    /\ watched_slaves'[s].filepath \in LatestSet(s)
                    /\ watched_slaves'[s].filepath # watched_slaves[s].filepath
                    /\ watched_slaves'[s].task \notin DOMAIN tasks
                    /\ tasks'[watched_slaves'[s].task].pc = "start"
                    /\ tasks'[watched_slaves'[s].task].filepath = watched_slaves'[s].filepath
              /\ ~ Starts(s) =>
                    /\ watched_slaves'[s] = watched_slaves[s]
                    /\ \A k \in DOMAIN tasks : k[1] = s => tasks'[k] = tasks[k]
              /\ ( /\ afterCycle'
                   /\ s \in IdsInDir
                   /\ watched_slaves[s].filepath \notin LatestSet(s) ) => Starts(s)
    ]_vars

(* A cycle has passed over a Tailer that ended on an unexpected exception: *)
(* its file is still the latest of the id, and nothing tails it.           *)
C31_Witness ==
    /\ afterCycle
    /\ \E s \in SlaveIds :
          /\ RecordedEnded(s)
          /\ watched_slaves[s].filepath \in LatestSet(s)
          /\ ActiveTailers(s) = {}
          /\ Gen(s) >= 2

-----------------------------------------------------------------------------
(* Two Tailers sending the same text through the dispatcher: a call of one *)
(* may begin while the call of the other is suspended in send_message or   *)
(* in a backoff sleep.                                                     *)
Racers == {"watcher_copy_A", "watcher_copy_B"}

InitRace ==
    /\ InitCommon
    /\ CHANNEL_ID = "channel"
    /\ logdir = InitDir

NextRace ==
    \/ \E c \in Racers : Send(c, "m1")
    \/ \E c \in Racers : SendOk(c)
    \/ \E c \in Racers : SendTelegramError(c)
    \/ \E c \in Racers : BackoffDone(c)
    \/ \E c \in Racers : FallbackOk(c)
    \/ Tick

SpecRace == InitRace /\ [][NextRace]_vars

(* C32: deduplication holds under interleaving.  Two calls with the same   *)
(* text that began less than 10 s apart, the second while the first was    *)
(* still awaiting its delivery, are never both delivered to the            *)
(* destination.                                                            *)
C32_DeliveredOnce ==
    \A c, d \in Racers :
        ( /\ c # d
          /\ netlog[c].msg = netlog[d].msg
          /\ netlog[c].result = "sent"
          /\ netlog[d].start - netlog[c].start >= 0
          /\ netlog[d].start - netlog[c].start < DEDUPLICATION_COOLDOWN )
        => netlog[d].result # "sent"

-----------------------------------------------------------------------------
(* The results of a call that tried the primary destination and never got  *)
(* through to it.                                                          *)
NotDelivered == {"failed", "fallback", "raised", "error"}

(* C33: the dedup record changes only in the step in which a send to the   *)
(* primary destination returns, and then holds that message and the time   *)
(* at which its call began; a call that ends without a delivery to the     *)
(* primary destination, the fallback having succeeded or not, leaves the   *)
(* record as it was; and a call that repeats the call before it less than  *)
(* 10 s later, the record not holding that text from a delivery less than  *)
(* 10 s before, is not dropped but sent to the primary destination.        *)
C33_RecordOnlyOnDelivery ==
    [][ \A c \in Callers :
          /\ <<last_message_hash, last_message_time>>' # <<last_message_hash, last_message_time>>
                => \E d \in Callers :
                      /\ calls[d].pc = "sending"
                      /\ netlog'[d].result = "sent"
                      /\ last_message_hash' = Hash(calls[d].msg)
                      /\ last_message_time' = netlog[d].start
          /\ (netlog[c].result = "pending" /\ netlog'[c].result \in NotDelivered)
                => UNCHANGED <<last_message_hash, last_message_time, lastDelivered>>
          /\ ( /\ netlog'[c] # netlog[c]
               /\ calls[c].pc = "idle"
               /\ netlog'[c].repeatOfPrev
               /\ ~ netlog'[c].repeatOfDelivered )
                => /\ netlog'[c].result = "pending"
                   /\ netlog'[c].primary = 1
                   /\ calls'[c].pc = "sending"
                   /\ calls'[c].attempt = 0
      ]_vars

(* The channel has refused a message four times, nothing is recorded, and *)
(* the same message, sent again right after, is on its way to the channel. *)
C33_Witness ==
    /\ netlog[Sender].repeatOfPrev
    /\ ~ netlog[Sender].repeatOfDelivered
    /\ netlog[Sender].result = "pending"
    /\ calls[Sender].pc = "sending"
    /\ last_message_hash = None
    /\ now >= StartTime + 7

-----------------------------------------------------------------------------
(* The state a source's mtime calls for in the running scan.               *)
StateByMtime(f) == IF Stale(f) THEN "disconnected" ELSE "connected"

(* C34: the file_not_found state is left when the file comes back: when    *)
(* the scan has handled a registered source whose file is present (the     *)
(* step that checks it without an alert, or the return of the alert it     *)
(* sent for it), the source's state is connected or disconnected as its    *)
(* mtime says, never file_not_found.                                       *)
C34_PresentFileLeavesNotFound ==
    [][ /\ \A f \in SourceFiles :
              (Checks(f) /\ f \in DOMAIN srcfiles /\ health'.pc = "scan")
                 => StatusOf(source_statuses', f) = StateByMtime(f)
        /\ ( /\ health.pc = "alert"
             /\ health'.pc = "scan"
             /\ health.kind \in {"Disconnected", "StillDisconnected", "Reconnected"} )
              => StatusOf(source_statuses', health.file) # "file_not_found"
      ]_vars

(* C35: when a scan over a non-empty registry ends, the status map has an  *)
(* entry for every source of the registry the scan walked over, also for   *)
(* a source that has been connected and fresh since startup.               *)
C35_EveryScannedSourceHasStatus ==
    [][ ( /\ health.pc = "scan"
          /\ health'.pc = "sleep"
          /\ health.scanned # EmptyMap )
        => DOMAIN health.scanned \subseteq DOMAIN source_statuses' ]_vars

-----------------------------------------------------------------------------
(* One source position copied to two accounts.  Each copier logs, in its   *)
(* own file, the TRADE_OPEN and later the TRADE_CLOSE of the same source   *)
(* ticket; each Tailer reads its file line by line.  The registry names    *)
(* the source 'Alpha Feed' in every cycle.                                 *)
PairRegistry == [f \in SourceFiles |-> [name |-> "Alpha Feed", id |-> "src_1"]]

(* The copier logs the next line about the position: its open, then its   *)
(* close.                                                                  *)
PairWrite(f) ==
    /\ Lines(f) < 2
    /\ WriteLine(f)

(* readline returns line n of the file, a TRADE_OPEN line: the open branch *)
(* of parse_and_format_log_line up to the await of the dispatcher.         *)
ReadOpen(k, line) ==
    LET n == offset[k].pos + 1
        name == DisplayName(line.source_file)
        changed == Get(state_data, line.ticket, None) # name
    IN  /\ Running
        /\ tasks[k].pc = "read"
        /\ k \in DOMAIN offset
        /\ n <= Lines(tasks[k].filepath)
        /\ n = 1
        /\ line \in OpenLines
        /\ offset' = [offset EXCEPT ![k].pos = n]
        /\ seen' = Append(seen, [task |-> k, file |-> tasks[k].filepath, n |-> n,
                                 had |-> offset[k].had])
        /\ Upsert(line.ticket, name)
        /\ SetTask(k, [tasks[k] EXCEPT !.pc = "alert", !.line = line,
                                       !.msgName = name, !.expName = None])
        /\ openName' = [openName EXCEPT ![line.ticket] = name]
        /\ pendingOpen' = pendingOpen \cup {line.ticket}
        /\ flushedOpen' = IF changed THEN flushedOpen \ {line.ticket} ELSE flushedOpen
        /\ linesRead' = linesRead + 1
        /\ UNCHANGED <<source_name_map, ledger, watched_slaves, diskVars, logdir,
                       afterCycle, dispVars, prevFile, newDoc, restarts,
                       healthVars, parseVars, logtext, main>>

(* readline returns line n of the file, a TRADE_CLOSE line: the close      *)
(* branch up to the await of the dispatcher.                               *)
ReadClose(k, line) ==
    LET n == offset[k].pos + 1
    IN  /\ Running
        /\ tasks[k].pc = "read"
        /\ k \in DOMAIN offset
        /\ n <= Lines(tasks[k].filepath)
        /\ n = 2
        /\ line \in CloseLines
        /\ offset' = [offset EXCEPT ![k].pos = n]
        /\ seen' = Append(seen, [task |-> k, file |-> tasks[k].filepath, n |-> n,
                                 had |-> offset[k].had])
        /\ SetTask(k, [tasks[k] EXCEPT
                !.pc = "alert", !.line = line,
                !.msgName = CloseName(line),
                !.expName = IF line.ticket \in DOMAIN state_data
                            THEN openName[line.ticket] ELSE None])
        /\ pendingOpen' = pendingOpen \ {line.ticket}
        /\ flushedOpen' = flushedOpen \ {line.ticket}
        /\ linesRead' = linesRead + 1
        /\ UNCHANGED <<corrVars, watched_slaves, diskVars, logdir, afterCycle, dispVars,
                       openName, prevFile, newDoc, restarts, healthVars, parseVars,
                       logtext, main>>

NextPair ==
    \/ \E pick \in [IdsInDir -> DOMAIN logdir] : MainCycle(PairRegistry, pick)
    \/ \E k \in DOMAIN tasks : TailerOpen(k)
    \/ \E f \in DOMAIN logdir : PairWrite(f)
    \/ \E k \in DOMAIN tasks, line \in OpenLines : ReadOpen(k, line)
    \/ \E k \in DOMAIN tasks, line \in CloseLines : ReadClose(k, line)
    \/ \E k \in DOMAIN tasks : AlertDone(k)
    \/ \E k \in DOMAIN tasks : SaveTradeBegin(k)
    \/ \E k \in DOMAIN tasks : SaveTradeOk(k)
    \/ \E k \in DOMAIN tasks : SaveTradeFails(k)

SpecPair == Init /\ [][NextPair]_vars

(* The Tailer k has parsed the TRADE_OPEN line of its file.                *)
ParsedOpen(k) == \E j \in 1..Len(seen) : seen[j].task = k /\ seen[j].n = 1

(* C36: two copy accounts log the open and later the close of the same     *)
(* source ticket; in every interleaving of the four lines, a Tailer that   *)
(* formats its file's close, after both Tailers have parsed their file's   *)
(* open, puts the name stored at open time (the registry's name, which     *)
(* never changes here) into the close notification.                        *)
C36_BothClosesCarryOpenName ==
    \A k \in DOMAIN tasks :
        ( /\ tasks[k].pc \in {"alert", "db"}
          /\ tasks[k].line.kind = "CLOSE"
          /\ \A j \in DOMAIN tasks : ParsedOpen(j) )
        => tasks[k].msgName = PairRegistry[tasks[k].line.source_file].name

-----------------------------------------------------------------------------
(* One Tailer handling line after line, the dispatcher retrying, falling   *)
(* back, delivering or giving up, the ledger accepting or refusing the     *)
(* row.  The log gets a TRADE_OPEN, a TRADE_CLOSE or a DD_RESET line.      *)
SerialLines ==
    {l \in WellFormedLines : l.marker \in {"TRADE_OPEN", "TRADE_CLOSE", "DD_RESET"}}

(* readline returns one of these lines.                                    *)
SerialParse(k) ==
    /\ ParseLine(k)
    /\ logline' \in SerialLines

(* The Tailer is back at readline (while True, line 575) for the second    *)
(* line of the log: the line it has handled and what the parser returned   *)
(* for it are dead.                                                        *)
ReadAgain(k) ==
    /\ Running
    /\ tasks[k].pc = "read"
    /\ logline # NoLogLine
    /\ linesRead = 0
    /\ linesRead' = linesRead + 1
    /\ logline' = NoLogLine
    /\ parsed' = NotParsed
    /\ UNCHANGED <<corrVars, taskVars, diskVars, logdir, dispVars, openName,
                   flushedOpen, pendingOpen, prevFile, newDoc, restarts,
                   afterCycle, healthVars, tailVars, main>>

(* asyncio.sleep(delay) of the dispatcher's backoff: a second of it passes. *)
BackoffTick ==
    /\ calls[Sender].pc = "backoff"
    /\ now < calls[Sender].wake
    /\ Tick

NextSerial ==
    \/ \E pick \in [IdsInDir -> DOMAIN logdir] : MainCycle(PairRegistry, pick)
    \/ \E k \in DOMAIN tasks : TailerOpen(k)
    \/ \E k \in DOMAIN tasks : SerialParse(k)
    \/ \E k \in DOMAIN tasks : ReadAgain(k)
    \/ SendOk(Sender)
    \/ SendTelegramError(Sender)
    \/ SendOtherError(Sender)
    \/ BackoffDone(Sender)
    \/ FallbackOk(Sender)
    \/ FallbackFails(Sender, "failed")
    \/ BackoffTick
    \/ \E k \in DOMAIN tasks : calls[Sender].pc = "idle" /\ AlertDone(k)
    \/ \E k \in DOMAIN tasks : calls[Sender].pc = "idle" /\ SaveTradeBegin(k)
    \/ \E k \in DOMAIN tasks : SaveTradeOk(k)
    \/ \E k \in DOMAIN tasks : SaveTradeFails(k)

SpecSerial == InitParse /\ [][NextSerial]_vars

(* The dispatcher has nothing in hand for the Tailer: its call has         *)
(* returned, after all retries and the fallback.                           *)
DispatchOver ==
    /\ calls[Sender].pc = "idle"
    /\ netlog[Sender].result # "pending"

(* C37: within one Tailer lines are handled one at a time.  A line is      *)
(* parsed only by a Tailer at readline while no dispatch is under way; a   *)
(* Tailer that awaits the dispatch of a line leaves that await only when   *)
(* the dispatch, retries and fallback included, is over; and it is back at *)
(* readline for a TRADE_CLOSE line only from save_trade_to_db, when the    *)
(* ledger append has succeeded or failed.  While it is away from readline  *)
(* no line is parsed.                                                      *)
C37_OneLineAtATime ==
    [][ \A k \in DOMAIN tasks \cap DOMAIN tasks' :
          /\ (logline' # logline /\ logline' # NoLogLine)
                => /\ tasks[k].pc = "read"
                   /\ logline = NoLogLine
                   /\ DispatchOver
          /\ (tasks[k].pc = "alert" /\ tasks'[k].pc # "alert")
                => /\ DispatchOver
                   /\ tasks'[k].pc = IF tasks[k].line.kind = "CLOSE" THEN "db" ELSE "read"
          /\ (tasks[k].pc = "db" /\ tasks'[k].pc # "db")
                => /\ tasks'[k].pc = "read"
                   /\ \/ ledger' = Append(ledger, LedgerRow(k))
                      \/ ledger' = ledger
          /\ tasks[k].pc \in {"alert", "db"}
                => UNCHANGED <<logline, parsed, g_benign_error_last_sent>>
      ]_vars

(* The Tailer has handled a TRADE_CLOSE line whose alert went through the  *)
(* retries to the fallback and whose row is in the ledger, and is now      *)
(* awaiting the dispatch of the next line, a TRADE_OPEN.                   *)
C37_Witness ==
    \E k \in DOMAIN tasks :
        /\ Len(ledger) = 1
        /\ linesRead = 1
        /\ tasks[k].pc = "alert"
        /\ tasks[k].line.kind = "OPEN"
        /\ calls[Sender].pc = "sending"
        /\ lastDelivered.msg = None

-----------------------------------------------------------------------------
(* found_benign_key of an [ERROR] text that has one.                       *)
BenignKeyOf(text) == BENIGN_ERROR_CONFIG[FoundBenignKey(text)].key

(* C38: a benign error is rate-limited, not suppressed for good.  An       *)
(* [ERROR] line of a benign key that comes later than the key's last-sent  *)
(* time plus its cooldown is let through: its alert is handed to the       *)
(* dispatcher and the key's last-sent time becomes the time of the line.   *)
(* A line that comes earlier is suppressed and leaves the last-sent times  *)
(* as they are; and no other step changes them.                            *)
C38_RateLimitedNotSuppressed ==
    [][ /\ \A text \in ErrorTexts :
              (ErrorLine(Sender, text) /\ FoundBenignKey(text) # 0)
                 => LET key == BenignKeyOf(text)
                        last == Get(g_benign_error_last_sent, key, 0)
                    IN  IF now > last + Cooldown(key)
                        THEN /\ g_benign_error_last_sent' =
                                    Put(g_benign_error_last_sent, key, now)
                             /\ netlog'[Sender].msg = BenignMessage(text)
                             /\ netlog'[Sender].start = now
                        ELSE UNCHANGED <<g_benign_error_last_sent, calls, netlog>>
        /\ g_benign_error_last_sent' # g_benign_error_last_sent
              => \E text \in ErrorTexts :
                    /\ ErrorLine(Sender, text)
                    /\ FoundBenignKey(text) # 0
                    /\ now > Get(g_benign_error_last_sent, BenignKeyOf(text), 0)
                                + Cooldown(BenignKeyOf(text))
      ]_vars

(* A key was let through and, by a line later than its last-sent time plus *)
(* its cooldown, let through again: that alert is with the dispatcher.     *)
C38_Witness ==
    \E key \in DOMAIN window :
        /\ window[key].idx = 2
        /\ window[key].n = 1
        /\ g_benign_error_last_sent[key] = now
        /\ now > StartTime + Cooldown(key)
        /\ calls[Sender].pc = "sending"
        /\ calls[Sender].key = key

-----------------------------------------------------------------------------
(* One Tailer handling two lines: a well-formed TRADE_OPEN, TRADE_CLOSE or *)
(* DD_RESET line, and then any line, well-formed or not.                   *)
FrameParse(k) ==
    /\ ParseLine(k)
    /\ linesRead = 0 => logline' \in SerialLines

NextFrame ==
    \/ \E pick \in [IdsInDir -> DOMAIN logdir] : MainCycle(PairRegistry, pick)
    \/ \E k \in DOMAIN tasks : TailerOpen(k)
    \/ \E k \in DOMAIN tasks : FrameParse(k)
    \/ \E k \in DOMAIN tasks : ReadAgain(k)
    \/ SendOk(Sender)
    \/ SendOtherError(Sender)
    \/ \E k \in DOMAIN tasks : calls[Sender].pc = "idle" /\ AlertDone(k)
    \/ \E k \in DOMAIN tasks : calls[Sender].pc = "idle" /\ SaveTradeBegin(k)
    \/ \E k \in DOMAIN tasks : SaveTradeOk(k)
    \/ \E k \in DOMAIN tasks : SaveTradeFails(k)

SpecFrame == InitParse /\ [][NextFrame]_vars

(* What the parser returned is neither an open nor a close.                *)
OtherLine(r) == r.title \notin {"TradeOpened", "TradeClosed"}

(* C39: only TRADE_OPEN and TRADE_CLOSE lines change the Correlation Store *)
(* and only TRADE_CLOSE lines append to the ledger: no step that parses or *)
(* handles any other line (drawdown, limit, unparseable) changes the       *)
(* store, its dirty flag or the ledger; a row is appended only while a     *)
(* parsed TRADE_CLOSE line is in hand, and the store or its flag change    *)
(* only while a parsed TRADE_OPEN or TRADE_CLOSE line is in hand.          *)
C39_OnlyTradesChangeStore ==
    [][ /\ OtherLine(parsed') => UNCHANGED <<state_data, state_changed, ledger>>
        /\ ledger' # ledger
              => /\ parsed.title = "TradeClosed"
                 /\ logline.marker = "TRADE_CLOSE"
        /\ <<state_data, state_changed>>' # <<state_data, state_changed>>
              => /\ ~ OtherLine(parsed')
                 /\ logline'.marker \in {"TRADE_OPEN", "TRADE_CLOSE"}
      ]_vars

(* After a TRADE_OPEN line, an unparseable line has been handled and its   *)
(* alert delivered: the entry of the open is still in the store.           *)
C39_Witness ==
    \E k \in DOMAIN tasks :
        /\ linesRead = 1
        /\ parsed.title = "ParseError"
        /\ netlog[Sender].msg = parsed.message
        /\ netlog[Sender].result = "sent"
        /\ tasks[k].pc = "read"
        /\ state_data # EmptyMap
        /\ ledger = <<>>
=============================================================================
